---- MODULE Spec2Model ----
(***************************************************************************)
(* CryptoWallet: the private-key lifecycle and the transaction-signing     *)
(* path.  SecurityManager (src/src/utils/security.ts) and WalletService    *)
(* (src/unnamed/part_002, lines 243-665) as a state machine.               *)
(*                                                                         *)
(* Strings that the code computes on (keys, ciphertexts, addresses) are    *)
(* sequences of UTF-16 code units; numbers are integers (amounts and       *)
(* balances in a smallest unit).  Every `await` of the code is a point     *)
(* where another call may run, so each async method is a chain of actions. *)
(***************************************************************************)
EXTENDS Integers, Sequences, FiniteSets, TLC

VARIABLES
    encryptionKey,  \* SecurityManager.encryptionKey (NoKey is null)
    secureStore,    \* the platform store's entry ENCRYPTION_KEY (NoKey is absent)
    initCall,       \* the initialize() calls, one per caller
    clock,          \* Date.now()
    objs,           \* the heap of Wallet objects; a reference is an index
    wallets,        \* WalletService.wallets: a Map, as <<id, reference>> in insertion order
    generatedKeys,  \* per Wallet object, the plaintext key createWallet generated for it
    createCall,     \* the createWallet() calls, one per caller
    balanceCall,    \* the getBalance() calls, one per caller
    sendCall,       \* the sendTransaction() calls, one per caller
    cipher,         \* the encrypt/decrypt round trip under test
    swapCall,       \* the executeSwap() calls, one per caller
    swapObjs,       \* the heap of SwapTransaction objects; a reference is an index
    swapTransactions, \* SwapService.swapTransactions: a Map, as <<id, reference>>
    demoCall,       \* the initializeDemoWallets() calls, one per caller
    passwordCall,   \* a hashPassword() call and the verifyPassword() call on its result
    asyncStorage,   \* AsyncStorage: the entries 'users', SESSION_STORAGE_KEY, USER_STORAGE_KEY
    currentUser,    \* AuthService.currentUser (NoUser is null)
    isAuthenticated, \* AuthService.isAuthenticated
    authCall,       \* the AuthService calls, one per caller
    cancelCall,     \* the last cancelSwap() call
    apiKeys,        \* AsyncStorage: the entries api_key_<keyType>
    cachedConfig,   \* ConfigService.cachedConfig (NoConfig is null)
    configCall,     \* the getConfig() calls, one per caller
    saveCall,       \* the handleSave() call of the API key prompt
    priceCache,     \* PriceService.priceCache: a Map from cache key to data and timestamp
    priceCall       \* the getCurrentPrices() call

vars == <<encryptionKey, secureStore, initCall, clock, objs, wallets, generatedKeys,
          createCall, balanceCall, sendCall, cipher,
          swapCall, swapObjs, swapTransactions, demoCall, passwordCall,
          asyncStorage, currentUser, isAuthenticated, authCall,
          cancelCall, apiKeys, cachedConfig, configCall, saveCall,
          priceCache, priceCall>>

----------------------------------------------------------------------------
(* Bounds of the model *)

MaxClock == 1        \* Date.now() takes the values 0..MaxClock
MaxWallets == 2      \* Wallet objects ever created
MaxBalance == 1      \* balances a chain query reports: 0..MaxBalance
MaxAmount == 1       \* amounts a caller asks to send: -1..MaxAmount
MaxLen == 3          \* length of the strings the round trip is tried on

----------------------------------------------------------------------------
(* Strings as sequences of code units *)

NoKey == <<>>

RECURSIVE BitXor(_, _)
\* a ^ b on non-negative integers
BitXor(a, b) ==
    IF a = 0 THEN b
    ELSE IF b = 0 THEN a
    ELSE (((a % 2) + (b % 2)) % 2) + 2 * BitXor(a \div 2, b \div 2)

\* byte.toString(16).padStart(2, '0')
HexDigit(n) == IF n < 10 THEN 48 + n ELSE 87 + n
HexByte(b) == <<HexDigit(b \div 16), HexDigit(b % 16)>>

RECURSIVE HexString(_)
\* Array.from(bytes, byte => hex(byte)).join('')
HexString(bytes) ==
    IF bytes = <<>> THEN <<>>
    ELSE HexByte(Head(bytes)) \o HexString(Tail(bytes))

\* s.substring(start, end)
Substring(s, start, end) ==
    SubSeq(s, start + 1, IF end < Len(s) THEN end ELSE Len(s))

\* The base64 alphabet: A-Z a-z 0-9 + /
Base64Char(i) ==
    IF i < 26 THEN 65 + i
    ELSE IF i < 52 THEN 97 + (i - 26)
    ELSE IF i < 62 THEN 48 + (i - 52)
    ELSE IF i = 62 THEN 43 ELSE 47

IsBase64Char(c) ==
    \/ c \in 65..90
    \/ c \in 97..122
    \/ c \in 48..57
    \/ c = 43
    \/ c = 47

Base64Index(c) ==
    IF c \in 65..90 THEN c - 65
    ELSE IF c \in 97..122 THEN c - 97 + 26
    ELSE IF c \in 48..57 THEN c - 48 + 52
    ELSE IF c = 43 THEN 62 ELSE 63

Failure(msg) == [ok |-> FALSE, val |-> <<>>, err |-> msg]
Success(v) == [ok |-> TRUE, val |-> v, err |-> ""]

RECURSIVE Base64Groups(_)
Base64Groups(s) ==
    IF Len(s) = 0 THEN <<>>
    ELSE IF Len(s) = 1 THEN
        <<Base64Char(s[1] \div 4), Base64Char((s[1] % 4) * 16), 61, 61>>
    ELSE IF Len(s) = 2 THEN
        <<Base64Char(s[1] \div 4),
          Base64Char((s[1] % 4) * 16 + s[2] \div 16),
          Base64Char((s[2] % 16) * 4), 61>>
    ELSE
        <<Base64Char(s[1] \div 4),
          Base64Char((s[1] % 4) * 16 + s[2] \div 16),
          Base64Char((s[2] % 16) * 4 + s[3] \div 64),
          Base64Char(s[3] % 64)>> \o Base64Groups(SubSeq(s, 4, Len(s)))

\* btoa: base64 of a string of bytes; throws on a code unit above 0xFF
btoa(s) ==
    IF \E i \in 1..Len(s) : s[i] > 255
    THEN Failure("InvalidCharacterError")
    ELSE Success(Base64Groups(s))

RECURSIVE StripWhitespace(_)
StripWhitespace(s) ==
    IF s = <<>> THEN <<>>
    ELSE IF Head(s) \in {9, 10, 12, 13, 32} THEN StripWhitespace(Tail(s))
    ELSE <<Head(s)>> \o StripWhitespace(Tail(s))

StripPadding(s) ==
    IF Len(s) > 0 /\ Len(s) % 4 = 0 /\ s[Len(s)] = 61
    THEN IF s[Len(s) - 1] = 61 THEN SubSeq(s, 1, Len(s) - 2)
         ELSE SubSeq(s, 1, Len(s) - 1)
    ELSE s

RECURSIVE Base64Bytes(_)
Base64Bytes(s) ==
    IF Len(s) < 2 THEN <<>>
    ELSE LET a == Base64Index(s[1])
             b == Base64Index(s[2])
         IN  IF Len(s) = 2 THEN <<a * 4 + b \div 16>>
             ELSE LET c == Base64Index(s[3])
                  IN  IF Len(s) = 3
                      THEN <<a * 4 + b \div 16, (b % 16) * 16 + c \div 4>>
                      ELSE <<a * 4 + b \div 16,
                             (b % 16) * 16 + c \div 4,
                             (c % 4) * 64 + Base64Index(s[4])>>
                           \o Base64Bytes(SubSeq(s, 5, Len(s)))

\* atob: the forgiving base64 decode; throws on malformed input
atob(s) ==
    LET t == StripPadding(StripWhitespace(s))
    IN  IF Len(t) % 4 = 1 \/ (\E i \in 1..Len(t) : ~IsBase64Char(t[i]))
        THEN Failure("InvalidCharacterError")
        ELSE Success(Base64Bytes(t))

\* privateKey.split('').map((char, index) => char ^ key[index % key.length]).join('')
XorWithKey(s, key) ==
    [i \in 1..Len(s) |-> BitXor(s[i], key[((i - 1) % Len(key)) + 1])]

----------------------------------------------------------------------------
(* SecurityManager: encryptPrivateKey / decryptPrivateKey as functions of  *)
(* the key held in memory                                                  *)

encryptPrivateKey(key, privateKey) ==
    IF key = NoKey THEN Failure("Security manager not initialized")
    ELSE LET r == btoa(XorWithKey(privateKey, key))
         IN  IF r.ok THEN r ELSE Failure("Failed to encrypt private key")

\* A faulty decryptPrivateKey: the base64 is decoded and the XOR is left out
decryptPrivateKeyUnkeyed(key, encryptedPrivateKey) ==
    IF key = NoKey THEN Failure("Security manager not initialized")
    ELSE LET r == atob(encryptedPrivateKey)
         IN  IF r.ok THEN r ELSE Failure("Failed to decrypt private key")

\* A faulty decryptPrivateKey: a text that cannot be decoded yields the empty key
decryptPrivateKeyLenient(key, encryptedPrivateKey) ==
    IF key = NoKey THEN Failure("Security manager not initialized")
    ELSE LET r == atob(encryptedPrivateKey)
         IN  IF r.ok THEN Success(XorWithKey(r.val, key)) ELSE Success(<<>>)

decryptPrivateKey(key, encryptedPrivateKey) ==
    IF key = NoKey THEN Failure("Security manager not initialized")
    ELSE LET r == atob(encryptedPrivateKey)
         IN  IF r.ok THEN Success(XorWithKey(r.val, key))
             ELSE Failure("Failed to decrypt private key")

----------------------------------------------------------------------------
(* Values *)

ETHEREUM == "ethereum"
BITCOIN == "bitcoin"
SOLANA == "solana"
CryptoTypes == {ETHEREUM, BITCOIN, SOLANA}

\* What a caller may pass as cryptoType: the enum, or a value outside it
RequestedTypes == CryptoTypes \cup {"dogecoin"}

Users == {"u1"}

\* The byte strings the random source yields (Crypto.getRandomBytesAsync,
\* ethers.Wallet.createRandom, Keypair.generate), shortened to one byte
RandomBytes == {<<10>>, <<243>>}

\* The secret the random source yields for a wallet, likewise shortened
SecretBytes == {<<243>>}

\* The encryption keys generateEncryptionKey can return
EncryptionKeys == {HexString(bytes) : bytes \in RandomBytes}

\* `undefined` where a Wallet is looked up
NoWallet == 0

\* '0x' and 'bc1' as code units
Prefix0x == <<48, 120>>
PrefixBc1 == <<98, 99, 49>>

\* Stand-in for the public key an external library derives from the secret:
\* injective, and not the secret itself
PublicOf(bytes) == [i \in 1..Len(bytes) |-> 255 - bytes[i]]

\* createWallet, lines 270-297: the (address, privateKey) pair per chain
GenerateKeyPair(type, bytes) ==
    IF type = ETHEREUM THEN
        [address |-> Prefix0x \o HexString(PublicOf(bytes)),
         privateKey |-> Prefix0x \o HexString(bytes)]
    ELSE IF type = BITCOIN THEN
        [address |-> PrefixBc1 \o Substring(HexString(bytes), 0, 40),
         privateKey |-> HexString(bytes)]
    ELSE
        [address |-> HexString(PublicOf(bytes)),
         privateKey |-> btoa(bytes).val]

\* NETWORKS[cryptoType].symbol
SymbolOf(type) ==
    IF type = ETHEREUM THEN "ETH" ELSE IF type = BITCOIN THEN "BTC" ELSE "SOL"

getDecimals(type) ==
    IF type = ETHEREUM THEN 18
    ELSE IF type = BITCOIN THEN 8
    ELSE IF type = SOLANA THEN 9
    ELSE 18

\* `${cryptoType}_${Date.now()}`
WalletId(type, now) == <<type, now>>

WalletIds == {WalletId(t, n) : t \in CryptoTypes, n \in 0..MaxClock}

----------------------------------------------------------------------------
(* Map<string, Wallet>: entries in insertion order *)

MapHas(m, k) == \E i \in 1..Len(m) : m[i].key = k

MapGet(m, k) == m[CHOOSE i \in 1..Len(m) : m[i].key = k].ref

\* set keeps the position of an existing key and appends a new one
MapSet(m, k, r) ==
    IF MapHas(m, k)
    THEN [i \in 1..Len(m) |-> IF m[i].key = k THEN [key |-> k, ref |-> r] ELSE m[i]]
    ELSE Append(m, [key |-> k, ref |-> r])

MapDelete(m, k) == SelectSeq(m, LAMBDA e : e.key # k)

\* this.wallets.get(walletId): the reference held under the id, or undefined
getWallet(walletId) ==
    IF MapHas(wallets, walletId) THEN MapGet(wallets, walletId) ELSE NoWallet

\* Array.from(m.values())
MapValues(m) == [i \in 1..Len(m) |-> m[i].ref]

\* the references of the registry's wallets of the user, in the Map's order
getWalletsByUserId(userId) ==
    SelectSeq(MapValues(wallets), LAMBDA r : objs[r].userId = userId)

----------------------------------------------------------------------------
(* SecurityManager.initialize *)

\* the callers whose initialize calls may overlap
InitCallers == {"i1"}

InitIdle == [pc |-> "idle", outcome |-> "none", key |-> NoKey]

\* initialize() is called: getSecureItem(ENCRYPTION_KEY) is awaited
Initialize(i) ==
    /\ initCall[i].pc = "idle"
    /\ initCall' = [initCall EXCEPT ![i] = [InitIdle EXCEPT !.pc = "get"]]
    /\ UNCHANGED <<encryptionKey, secureStore, clock, objs, wallets, generatedKeys,
                   createCall, balanceCall, sendCall, cipher,
                   swapCall, swapObjs, swapTransactions, demoCall, passwordCall,
                   asyncStorage, currentUser, isAuthenticated, authCall,
                   cancelCall, apiKeys, cachedConfig, configCall, saveCall,
                   priceCache, priceCall>>

\* A faulty load: the stored key is taken into memory and a new key is
\* requested all the same
InitializeLoadedRegenerating(i) ==
    /\ initCall[i].pc = "get"
    /\ encryptionKey' = secureStore
    /\ initCall' = [initCall EXCEPT ![i] = [InitIdle EXCEPT !.pc = "generate"]]
    /\ UNCHANGED <<secureStore, clock, objs, wallets, generatedKeys,
                   createCall, balanceCall, sendCall, cipher,
                   swapCall, swapObjs, swapTransactions, demoCall, passwordCall,
                   asyncStorage, currentUser, isAuthenticated, authCall,
                   cancelCall, apiKeys, cachedConfig, configCall, saveCall,
                   priceCache, priceCall>>

\* the store answers: the key held in memory becomes what the store holds;
\* when that is empty a new key is requested from the random source
InitializeLoaded(i) ==
    /\ initCall[i].pc = "get"
    /\ encryptionKey' = secureStore
    /\ initCall' = [initCall EXCEPT ![i] =
                      IF secureStore = NoKey
                      THEN [InitIdle EXCEPT !.pc = "generate"]
                      ELSE [InitIdle EXCEPT !.outcome = "ok"]]
    /\ UNCHANGED <<secureStore, clock, objs, wallets, generatedKeys,
                   createCall, balanceCall, sendCall, cipher,
                   swapCall, swapObjs, swapTransactions, demoCall, passwordCall,
                   asyncStorage, currentUser, isAuthenticated, authCall,
                   cancelCall, apiKeys, cachedConfig, configCall, saveCall,
                   priceCache, priceCall>>

\* the store cannot be read: 'Security initialization failed'
InitializeLoadFailed(i) ==
    /\ initCall[i].pc = "get"
    /\ initCall' = [initCall EXCEPT ![i] = [InitIdle EXCEPT !.outcome = "error"]]
    /\ UNCHANGED <<encryptionKey, secureStore, clock, objs, wallets, generatedKeys,
                   createCall, balanceCall, sendCall, cipher,
                   swapCall, swapObjs, swapTransactions, demoCall, passwordCall,
                   asyncStorage, currentUser, isAuthenticated, authCall,
                   cancelCall, apiKeys, cachedConfig, configCall, saveCall,
                   priceCache, priceCall>>

\* generateEncryptionKey returns: the key is held in memory and
\* setSecureItem(ENCRYPTION_KEY, this.encryptionKey) is awaited
InitializeGenerated(i) ==
    /\ initCall[i].pc = "generate"
    /\ \E bytes \in RandomBytes :
          /\ encryptionKey' = HexString(bytes)
          /\ initCall' = [initCall EXCEPT ![i] =
                            [pc |-> "store", outcome |-> "none",
                             key |-> HexString(bytes)]]
    /\ UNCHANGED <<secureStore, clock, objs, wallets, generatedKeys,
                   createCall, balanceCall, sendCall, cipher,
                   swapCall, swapObjs, swapTransactions, demoCall, passwordCall,
                   asyncStorage, currentUser, isAuthenticated, authCall,
                   cancelCall, apiKeys, cachedConfig, configCall, saveCall,
                   priceCache, priceCall>>

\* the random source rejects: 'Security initialization failed', no key in memory
InitializeGenerateFailed(i) ==
    /\ initCall[i].pc = "generate"
    /\ initCall' = [initCall EXCEPT ![i] = [InitIdle EXCEPT !.outcome = "error"]]
    /\ UNCHANGED <<encryptionKey, secureStore, clock, objs, wallets, generatedKeys,
                   createCall, balanceCall, sendCall, cipher,
                   swapCall, swapObjs, swapTransactions, demoCall, passwordCall,
                   asyncStorage, currentUser, isAuthenticated, authCall,
                   cancelCall, apiKeys, cachedConfig, configCall, saveCall,
                   priceCache, priceCall>>

\* setSecureItem completes: the store holds the key this call generated
InitializeStored(i) ==
    /\ initCall[i].pc = "store"
    /\ secureStore' = initCall[i].key
    /\ initCall' = [initCall EXCEPT ![i] = [InitIdle EXCEPT !.outcome = "ok"]]
    /\ UNCHANGED <<encryptionKey, clock, objs, wallets, generatedKeys,
                   createCall, balanceCall, sendCall, cipher,
                   swapCall, swapObjs, swapTransactions, demoCall, passwordCall,
                   asyncStorage, currentUser, isAuthenticated, authCall,
                   cancelCall, apiKeys, cachedConfig, configCall, saveCall,
                   priceCache, priceCall>>

\* setSecureItem throws: 'Security initialization failed', the key stays in memory
InitializeStoreFailed(i) ==
    /\ initCall[i].pc = "store"
    /\ initCall' = [initCall EXCEPT ![i] = [InitIdle EXCEPT !.outcome = "error"]]
    /\ UNCHANGED <<encryptionKey, secureStore, clock, objs, wallets, generatedKeys,
                   createCall, balanceCall, sendCall, cipher,
                   swapCall, swapObjs, swapTransactions, demoCall, passwordCall,
                   asyncStorage, currentUser, isAuthenticated, authCall,
                   cancelCall, apiKeys, cachedConfig, configCall, saveCall,
                   priceCache, priceCall>>

----------------------------------------------------------------------------
(* The clock: Date.now() never runs backwards.  An action that reads it      *)
(* takes the value read as `now` and leaves it in clock.                   *)

Times == 0..MaxClock

----------------------------------------------------------------------------
(* WalletService.createWallet *)

\* the callers whose createWallet calls may overlap
Creators == {"c1"}

CreateIdle ==
    [pc |-> "idle", userId |-> "", type |-> "", address |-> <<>>,
     privateKey |-> <<>>, encrypted |-> Failure(""),
     kind |-> "none", wallet |-> NoWallet]

CreateInFlight == {c \in Creators : createCall[c].pc \in {"random", "encrypt"}}

\* the key pair is there: encryptPrivateKey(privateKey) is called, under the
\* key held in memory, and awaited
EncryptingWith(call, bytes, key) ==
    LET kp == GenerateKeyPair(call.type, bytes)
    IN  [call EXCEPT !.pc = "encrypt",
                     !.address = kp.address,
                     !.privateKey = kp.privateKey,
                     !.encrypted = encryptPrivateKey(key, kp.privateKey)]

CreateEncrypting(call, bytes) == EncryptingWith(call, bytes, encryptionKey)

\* A faulty catch: the error is logged and the call returns nothing
CreateFailedSilently(call) ==
    [CreateIdle EXCEPT !.pc = "done", !.userId = call.userId, !.type = call.type]

\* catch: 'Failed to create wallet'
CreateFailed(call) ==
    [CreateIdle EXCEPT !.pc = "done", !.userId = call.userId, !.type = call.type,
                       !.kind = "error"]

\* createWallet(userId, cryptoType, name) is called
CreateWallet(c, userId, type) ==
    /\ createCall[c].pc \in {"idle", "done"}
    /\ Len(objs) + Cardinality(CreateInFlight) < MaxWallets
    /\ LET call == [CreateIdle EXCEPT !.userId = userId, !.type = type]
       IN  \/ /\ type \in {ETHEREUM, SOLANA}
              /\ \E bytes \in SecretBytes :
                    createCall' = [createCall EXCEPT ![c] = CreateEncrypting(call, bytes)]
           \/ /\ type = BITCOIN
              /\ createCall' = [createCall EXCEPT ![c] = [call EXCEPT !.pc = "random"]]
           \/ /\ type \notin CryptoTypes
              /\ createCall' = [createCall EXCEPT ![c] = CreateFailed(call)]
    /\ UNCHANGED <<encryptionKey, secureStore, initCall, clock, objs, wallets,
                   generatedKeys, balanceCall, sendCall, cipher,
                   swapCall, swapObjs, swapTransactions, demoCall, passwordCall,
                   asyncStorage, currentUser, isAuthenticated, authCall,
                   cancelCall, apiKeys, cachedConfig, configCall, saveCall,
                   priceCache, priceCall>>

\* Bitcoin: Crypto.getRandomBytesAsync(32) returns
CreateRandom(c) ==
    /\ createCall[c].pc = "random"
    /\ \E bytes \in SecretBytes :
          createCall' = [createCall EXCEPT ![c] = CreateEncrypting(createCall[c], bytes)]
    /\ UNCHANGED <<encryptionKey, secureStore, initCall, clock, objs, wallets,
                   generatedKeys, balanceCall, sendCall, cipher,
                   swapCall, swapObjs, swapTransactions, demoCall, passwordCall,
                   asyncStorage, currentUser, isAuthenticated, authCall,
                   cancelCall, apiKeys, cachedConfig, configCall, saveCall,
                   priceCache, priceCall>>

\* Bitcoin: the random source rejects
CreateRandomFailed(c) ==
    /\ createCall[c].pc = "random"
    /\ createCall' = [createCall EXCEPT ![c] = CreateFailed(createCall[c])]
    /\ UNCHANGED <<encryptionKey, secureStore, initCall, clock, objs, wallets,
                   generatedKeys, balanceCall, sendCall, cipher,
                   swapCall, swapObjs, swapTransactions, demoCall, passwordCall,
                   asyncStorage, currentUser, isAuthenticated, authCall,
                   cancelCall, apiKeys, cachedConfig, configCall, saveCall,
                   priceCache, priceCall>>

\* A faulty Wallet object: the generated key is stored as it is
NewWalletPlain(call, now) ==
    [id |-> WalletId(call.type, now),
     userId |-> call.userId,
     type |-> call.type,
     address |-> call.address,
     privateKey |-> call.privateKey,
     balance |-> 0,
     symbol |-> SymbolOf(call.type),
     decimals |-> getDecimals(call.type)]

\* lines 301-313: the Wallet object
NewWallet(call, now) ==
    [id |-> WalletId(call.type, now),
     userId |-> call.userId,
     type |-> call.type,
     address |-> call.address,
     privateKey |-> call.encrypted.val,
     balance |-> 0,
     symbol |-> SymbolOf(call.type),
     decimals |-> getDecimals(call.type)]

\* the encryption has settled: the wallet is built and stored, or the call fails
CreateFinish(c, now) ==
    /\ createCall[c].pc = "encrypt"
    /\ now >= clock
    /\ LET call == createCall[c]
           wallet == NewWallet(call, now)
       IN  IF call.encrypted.ok
           THEN /\ clock' = now
                /\ objs' = Append(objs, wallet)
                /\ generatedKeys' = Append(generatedKeys, call.privateKey)
                /\ wallets' = MapSet(wallets, wallet.id, Len(objs) + 1)
                /\ createCall' = [createCall EXCEPT ![c] =
                      [CreateIdle EXCEPT !.pc = "done", !.userId = call.userId,
                                         !.type = call.type, !.kind = "wallet",
                                         !.wallet = Len(objs) + 1]]
           ELSE /\ now = clock
                /\ createCall' = [createCall EXCEPT ![c] = CreateFailed(call)]
                /\ UNCHANGED <<clock, objs, wallets, generatedKeys>>
    /\ UNCHANGED <<encryptionKey, secureStore, initCall,
                   balanceCall, sendCall, cipher,
                   swapCall, swapObjs, swapTransactions, demoCall, passwordCall,
                   asyncStorage, currentUser, isAuthenticated, authCall,
                   cancelCall, apiKeys, cachedConfig, configCall, saveCall,
                   priceCache, priceCall>>

----------------------------------------------------------------------------
(* WalletService.deleteWallet *)

deleteWallet(walletId) ==
    /\ MapHas(wallets, walletId)
    /\ wallets' = MapDelete(wallets, walletId)
    /\ UNCHANGED <<encryptionKey, secureStore, initCall, clock, objs, generatedKeys,
                   createCall, balanceCall, sendCall, cipher,
                   swapCall, swapObjs, swapTransactions, demoCall, passwordCall,
                   asyncStorage, currentUser, isAuthenticated, authCall,
                   cancelCall, apiKeys, cachedConfig, configCall, saveCall,
                   priceCache, priceCall>>

----------------------------------------------------------------------------
(* WalletService.updateWallet, as its callers use it: a caller that holds a  *)
(* Wallet object writes the object's balance and hands it to updateWallet,   *)
(* which puts it in the registry under its id                                *)

updateWallet(wallet, balance) ==
    /\ wallet \in 1..Len(objs)
    /\ objs' = [objs EXCEPT ![wallet].balance = balance]
    /\ wallets' = MapSet(wallets, objs[wallet].id, wallet)
    /\ UNCHANGED <<encryptionKey, secureStore, initCall, clock, generatedKeys,
                   createCall, balanceCall, sendCall, cipher,
                   swapCall, swapObjs, swapTransactions, demoCall, passwordCall,
                   asyncStorage, currentUser, isAuthenticated, authCall,
                   cancelCall, apiKeys, cachedConfig, configCall, saveCall,
                   priceCache, priceCall>>

----------------------------------------------------------------------------
(* WalletService.getBalance *)

\* the callers whose getBalance calls may overlap
BalanceCallers == {"g1"}

BalanceIdle ==
    [pc |-> "idle", walletId |-> <<>>, wallet |-> NoWallet,
     kind |-> "none", value |-> 0, queryFailed |-> FALSE]

\* getBalance(walletId) is called: 'Wallet not found', or the chain is queried
GetBalance(g, walletId) ==
    /\ balanceCall[g].pc \in {"idle", "done"}
    /\ balanceCall' = [balanceCall EXCEPT ![g] =
          IF getWallet(walletId) # NoWallet
          THEN [BalanceIdle EXCEPT !.pc = "query", !.walletId = walletId,
                                   !.wallet = getWallet(walletId)]
          ELSE [BalanceIdle EXCEPT !.pc = "done", !.walletId = walletId,
                                   !.kind = "error"]]
    /\ UNCHANGED <<encryptionKey, secureStore, initCall, clock, objs, wallets,
                   generatedKeys, createCall, sendCall, cipher,
                   swapCall, swapObjs, swapTransactions, demoCall, passwordCall,
                   asyncStorage, currentUser, isAuthenticated, authCall,
                   cancelCall, apiKeys, cachedConfig, configCall, saveCall,
                   priceCache, priceCall>>

\* lines 593-598: the fetched balance is written to the wallet object, the
\* object is put back under its id, and the balance is returned
BalanceFetched(g, balance, failed) ==
    LET call == balanceCall[g]
    IN  /\ objs' = [objs EXCEPT ![call.wallet].balance = balance]
        /\ wallets' = MapSet(wallets, call.walletId, call.wallet)
        /\ balanceCall' = [balanceCall EXCEPT ![g] =
              [BalanceIdle EXCEPT !.pc = "done", !.walletId = call.walletId,
                                  !.kind = "value", !.value = balance,
                                  !.queryFailed = failed]]

\* get<Chain>Balance returns what the chain reports
GetBalanceAnswered(g) ==
    /\ balanceCall[g].pc = "query"
    /\ \E n \in 0..MaxBalance : BalanceFetched(g, n, FALSE)
    /\ UNCHANGED <<encryptionKey, secureStore, initCall, clock, generatedKeys,
                   createCall, sendCall, cipher,
                   swapCall, swapObjs, swapTransactions, demoCall, passwordCall,
                   asyncStorage, currentUser, isAuthenticated, authCall,
                   cancelCall, apiKeys, cachedConfig, configCall, saveCall,
                   priceCache, priceCall>>

\* get<Chain>Balance catches the query's failure and returns 0
GetBalanceQueryFailed(g) ==
    /\ balanceCall[g].pc = "query"
    /\ BalanceFetched(g, 0, TRUE)
    /\ UNCHANGED <<encryptionKey, secureStore, initCall, clock, generatedKeys,
                   createCall, sendCall, cipher,
                   swapCall, swapObjs, swapTransactions, demoCall, passwordCall,
                   asyncStorage, currentUser, isAuthenticated, authCall,
                   cancelCall, apiKeys, cachedConfig, configCall, saveCall,
                   priceCache, priceCall>>

----------------------------------------------------------------------------
(* WalletService.sendTransaction *)

\* the callers whose sendTransaction calls may overlap
Senders == {"s1", "s2"}

\* What a caller may pass as toAddress: an address in each chain's format
\* and a string in none
EthereumAddress == "0x52908400098527886E0F7030069857D2E4169EE7"
BitcoinAddress == "bc1qar0srrr7xfkvy5l643lydnw9re59gtzzwf5mdq"
SolanaAddress == "7EcDhSYGxXyscszYEp35KHN8vvw3svAuLKTzXwCFLtV"
ToAddresses == {EthereumAddress, BitcoinAddress, SolanaAddress, "not-an-address"}

\* the one of them in the format of a chain
AddressOf(type) ==
    IF type = ETHEREUM THEN EthereumAddress
    ELSE IF type = BITCOIN THEN BitcoinAddress
    ELSE SolanaAddress

\* amount and the optional fee (NoFee: the argument is left out)
Amounts == (0 - 1)..MaxAmount
NoFee == 0
Fees == {NoFee, 1}

\* the random part of a transaction hash
Nonces == {"k3x", "9qz"}

NoHash == [tag |-> "", time |-> 0, nonce |-> ""]
NoTransaction ==
    [id |-> <<"tx", 0>>, walletId |-> <<>>, type |-> "", amount |-> 0, fee |-> 0,
     fromAddress |-> <<>>, toAddress |-> "", hash |-> NoHash, status |-> ""]

SendIdle ==
    [pc |-> "idle", walletId |-> <<>>, toAddress |-> "", amount |-> 0, fee |-> NoFee,
     wallet |-> NoWallet, balanceBefore |-> 0, overlaps |-> {},
     decrypted |-> Failure(""),
     adapter |-> "none", submitted |-> FALSE, txHash |-> NoHash,
     kind |-> "none", message |-> "", transaction |-> NoTransaction]

\* the call has ended: its arguments and outcome stay, with the wallet it
\* resolved, the balance that wallet had when the call was made, and the calls
\* that were under way when it was made
SendEnded(call, kind, message, transaction) ==
    [SendIdle EXCEPT !.pc = "done", !.walletId = call.walletId,
                     !.toAddress = call.toAddress, !.amount = call.amount,
                     !.fee = call.fee, !.wallet = call.wallet,
                     !.balanceBefore = call.balanceBefore,
                     !.overlaps = call.overlaps,
                     !.adapter = call.adapter,
                     !.submitted = call.submitted, !.txHash = call.txHash,
                     !.kind = kind, !.message = message,
                     !.transaction = transaction]

\* A faulty catch: the adapter's own error is thrown on, unwrapped
SendFailedUnwrapped(call) == SendEnded(call, "error", "adapter error", NoTransaction)

\* catch (line 393): 'Failed to send transaction'
SendFailed(call) == SendEnded(call, "error", "Failed to send transaction", NoTransaction)

\* A faulty lookup: made inside the try, so that its error is wrapped
WalletNotFoundWrapped(call) == SendFailed(call)

\* lines 331-334, outside the try: 'Wallet not found'
WalletNotFound(call) == SendEnded(call, "error", "Wallet not found", NoTransaction)

\* the other calls that have started and not ended
SendsUnderWay(p) == {q \in Senders \ {p} : sendCall[q].pc \notin {"idle", "done"}}

\* lines 331-337: sendTransaction(walletId, toAddress, amount, fee) is called.
\* Without the wallet it throws; with it, decryptPrivateKey runs on the stored
\* key and its promise is awaited
SendTransaction(p, walletId, toAddress, amount, fee) ==
    /\ sendCall[p].pc = "idle"
    /\ LET call == [SendIdle EXCEPT !.walletId = walletId, !.toAddress = toAddress,
                                    !.amount = amount, !.fee = fee,
                                    !.overlaps = SendsUnderWay(p)]
           wallet == getWallet(walletId)
       IN  sendCall' = [sendCall EXCEPT ![p] =
              IF wallet = NoWallet
              THEN WalletNotFound(call)
              ELSE [call EXCEPT
                      !.pc = "decrypt",
                      !.wallet = wallet,
                      !.balanceBefore = objs[wallet].balance,
                      !.decrypted = decryptPrivateKey(encryptionKey,
                                                      objs[wallet].privateKey)]]
    /\ UNCHANGED <<encryptionKey, secureStore, initCall, clock, objs, wallets,
                   generatedKeys, createCall, balanceCall, cipher,
                   swapCall, swapObjs, swapTransactions, demoCall, passwordCall,
                   asyncStorage, currentUser, isAuthenticated, authCall,
                   cancelCall, apiKeys, cachedConfig, configCall, saveCall,
                   priceCache, priceCall>>

\* lines 337-375: the decryption has settled.  A failed one is caught; else the
\* adapter of the wallet's chain is called with the key, and runs up to its
\* first network or timer await (the configuration read before it touches
\* nothing of this model)
SendDispatch(p) ==
    /\ sendCall[p].pc = "decrypt"
    /\ LET call == sendCall[p]
           type == objs[call.wallet].type
       IN  sendCall' = [sendCall EXCEPT ![p] =
              IF ~call.decrypted.ok THEN SendFailed(call)
              ELSE IF type = ETHEREUM
                   THEN [call EXCEPT !.adapter = "called",
                           !.pc = IF call.fee = NoFee THEN "eth_fee" ELSE "eth_send"]
              ELSE IF type = BITCOIN
                   THEN [call EXCEPT !.adapter = "called", !.pc = "btc_timer"]
              ELSE IF type = SOLANA
                   THEN [call EXCEPT !.adapter = "called", !.pc = "sol_timer"]
              ELSE SendFailed(call)]
    /\ UNCHANGED <<encryptionKey, secureStore, initCall, clock, objs, wallets,
                   generatedKeys, createCall, balanceCall, cipher,
                   swapCall, swapObjs, swapTransactions, demoCall, passwordCall,
                   asyncStorage, currentUser, isAuthenticated, authCall,
                   cancelCall, apiKeys, cachedConfig, configCall, saveCall,
                   priceCache, priceCall>>

\* the adapter has thrown: control is back in sendTransaction's catch
AdapterThrew(call) == [call EXCEPT !.pc = "settled", !.adapter = "failed"]

\* the adapter has returned a hash
AdapterReturned(call, hash) ==
    [call EXCEPT !.pc = "settled", !.adapter = "returned", !.txHash = hash]

(* sendEthereumTransaction, lines 436-463.  ethers and the network are      *)
(* outside the repository: each request may succeed or fail.                *)

\* provider.getFeeData() answers; wallet.sendTransaction is called
EthereumFeeData(p) ==
    /\ sendCall[p].pc = "eth_fee"
    /\ sendCall' = [sendCall EXCEPT ![p].pc = "eth_send"]
    /\ UNCHANGED <<encryptionKey, secureStore, initCall, clock, objs, wallets,
                   generatedKeys, createCall, balanceCall, cipher,
                   swapCall, swapObjs, swapTransactions, demoCall, passwordCall,
                   asyncStorage, currentUser, isAuthenticated, authCall,
                   cancelCall, apiKeys, cachedConfig, configCall, saveCall,
                   priceCache, priceCall>>

EthereumFeeDataFailed(p) ==
    /\ sendCall[p].pc = "eth_fee"
    /\ sendCall' = [sendCall EXCEPT ![p] = AdapterThrew(sendCall[p])]
    /\ UNCHANGED <<encryptionKey, secureStore, initCall, clock, objs, wallets,
                   generatedKeys, createCall, balanceCall, cipher,
                   swapCall, swapObjs, swapTransactions, demoCall, passwordCall,
                   asyncStorage, currentUser, isAuthenticated, authCall,
                   cancelCall, apiKeys, cachedConfig, configCall, saveCall,
                   priceCache, priceCall>>

\* The private key ethers accepts: 0x and hex digits, as createWallet made it
IsHexDigit(c) == c \in 48..57 \/ c \in 97..102
IsEthereumKey(k) ==
    /\ Len(k) > 2
    /\ SubSeq(k, 1, 2) = Prefix0x
    /\ \A i \in 3..Len(k) : IsHexDigit(k[i])

\* wallet.sendTransaction signs and broadcasts; ethers rejects a key, a
\* recipient or a negative value, and the node may reject the transaction
EthereumSent(p) ==
    /\ sendCall[p].pc = "eth_send"
    /\ IsEthereumKey(sendCall[p].decrypted.val)
    /\ sendCall[p].amount >= 0
    /\ sendCall[p].toAddress = AddressOf(ETHEREUM)
    /\ \E n \in Nonces :
          sendCall' = [sendCall EXCEPT ![p] =
             [sendCall[p] EXCEPT !.pc = "eth_wait", !.submitted = TRUE,
                                 !.txHash = [tag |-> "0x", time |-> 0, nonce |-> n]]]
    /\ UNCHANGED <<encryptionKey, secureStore, initCall, clock, objs, wallets,
                   generatedKeys, createCall, balanceCall, cipher,
                   swapCall, swapObjs, swapTransactions, demoCall, passwordCall,
                   asyncStorage, currentUser, isAuthenticated, authCall,
                   cancelCall, apiKeys, cachedConfig, configCall, saveCall,
                   priceCache, priceCall>>

EthereumSendFailed(p) ==
    /\ sendCall[p].pc = "eth_send"
    /\ sendCall' = [sendCall EXCEPT ![p] = AdapterThrew(sendCall[p])]
    /\ UNCHANGED <<encryptionKey, secureStore, initCall, clock, objs, wallets,
                   generatedKeys, createCall, balanceCall, cipher,
                   swapCall, swapObjs, swapTransactions, demoCall, passwordCall,
                   asyncStorage, currentUser, isAuthenticated, authCall,
                   cancelCall, apiKeys, cachedConfig, configCall, saveCall,
                   priceCache, priceCall>>

\* tx.wait() resolves with the receipt
EthereumMined(p) ==
    /\ sendCall[p].pc = "eth_wait"
    /\ sendCall' = [sendCall EXCEPT ![p] = AdapterReturned(sendCall[p], sendCall[p].txHash)]
    /\ UNCHANGED <<encryptionKey, secureStore, initCall, clock, objs, wallets,
                   generatedKeys, createCall, balanceCall, cipher,
                   swapCall, swapObjs, swapTransactions, demoCall, passwordCall,
                   asyncStorage, currentUser, isAuthenticated, authCall,
                   cancelCall, apiKeys, cachedConfig, configCall, saveCall,
                   priceCache, priceCall>>

\* tx.wait() rejects: the transaction was broadcast and then failed
EthereumWaitFailed(p) ==
    /\ sendCall[p].pc = "eth_wait"
    /\ sendCall' = [sendCall EXCEPT ![p] = AdapterThrew(sendCall[p])]
    /\ UNCHANGED <<encryptionKey, secureStore, initCall, clock, objs, wallets,
                   generatedKeys, createCall, balanceCall, cipher,
                   swapCall, swapObjs, swapTransactions, demoCall, passwordCall,
                   asyncStorage, currentUser, isAuthenticated, authCall,
                   cancelCall, apiKeys, cachedConfig, configCall, saveCall,
                   priceCache, priceCall>>

\* sendBitcoinTransaction, lines 465-476: the one-second timer fires and
\* `btc_tx_${Date.now()}_${random}` is returned
BitcoinTimer(p, now) ==
    /\ sendCall[p].pc = "btc_timer"
    /\ now >= clock
    /\ clock' = now
    /\ \E n \in Nonces :
          sendCall' = [sendCall EXCEPT ![p] =
             AdapterReturned([sendCall[p] EXCEPT !.submitted = TRUE],
                             [tag |-> "btc_tx", time |-> now, nonce |-> n])]
    /\ UNCHANGED <<encryptionKey, secureStore, initCall, objs, wallets,
                   generatedKeys, createCall, balanceCall, cipher,
                   swapCall, swapObjs, swapTransactions, demoCall, passwordCall,
                   asyncStorage, currentUser, isAuthenticated, authCall,
                   cancelCall, apiKeys, cachedConfig, configCall, saveCall,
                   priceCache, priceCall>>

\* sendSolanaTransaction, lines 478-494: likewise `sol_tx_${Date.now()}_${random}`
SolanaTimer(p, now) ==
    /\ sendCall[p].pc = "sol_timer"
    /\ now >= clock
    /\ clock' = now
    /\ \E n \in Nonces :
          sendCall' = [sendCall EXCEPT ![p] =
             AdapterReturned([sendCall[p] EXCEPT !.submitted = TRUE],
                             [tag |-> "sol_tx", time |-> now, nonce |-> n])]
    /\ UNCHANGED <<encryptionKey, secureStore, initCall, objs, wallets,
                   generatedKeys, createCall, balanceCall, cipher,
                   swapCall, swapObjs, swapTransactions, demoCall, passwordCall,
                   asyncStorage, currentUser, isAuthenticated, authCall,
                   cancelCall, apiKeys, cachedConfig, configCall, saveCall,
                   priceCache, priceCall>>

\* A faulty Transaction record: confirmed, since the adapter waited for a receipt
NewTransactionConfirmed(call, wallet, now) ==
    [id |-> <<"tx", now>>,
     walletId |-> call.walletId,
     type |-> "send",
     amount |-> call.amount,
     fee |-> call.fee,
     fromAddress |-> wallet.address,
     toAddress |-> call.toAddress,
     hash |-> call.txHash,
     status |-> "confirmed"]

\* lines 377-390: the Transaction record
NewTransaction(call, wallet, now) ==
    [id |-> <<"tx", now>>,
     walletId |-> call.walletId,
     type |-> "send",
     amount |-> call.amount,
     fee |-> call.fee,
     fromAddress |-> wallet.address,
     toAddress |-> call.toAddress,
     hash |-> call.txHash,
     status |-> "pending"]

\* lines 377-396: the adapter has settled; the Transaction is returned, or the
\* adapter's error is caught and 'Failed to send transaction' is thrown
SendSettled(p, now) ==
    /\ sendCall[p].pc = "settled"
    /\ now >= clock
    /\ LET call == sendCall[p]
       IN  IF call.adapter = "returned"
           THEN /\ clock' = now
                /\ sendCall' = [sendCall EXCEPT ![p] =
                      SendEnded(call, "transaction", "",
                                NewTransaction(call, objs[call.wallet], now))]
           ELSE /\ now = clock
                /\ clock' = clock
                /\ sendCall' = [sendCall EXCEPT ![p] = SendFailed(call)]
    /\ UNCHANGED <<encryptionKey, secureStore, initCall, objs, wallets,
                   generatedKeys, createCall, balanceCall, cipher,
                   swapCall, swapObjs, swapTransactions, demoCall, passwordCall,
                   asyncStorage, currentUser, isAuthenticated, authCall,
                   cancelCall, apiKeys, cachedConfig, configCall, saveCall,
                   priceCache, priceCall>>

----------------------------------------------------------------------------
(* The encrypt/decrypt round trip on its own *)

\* Code units the strings are made of: NUL, '0', 'f', 0xFF and one above 0xFF
Alphabet == {0, 48, 102, 255, 8364}

Strings == UNION {[1..n -> Alphabet] : n \in 0..MaxLen}

CipherIdle == [pc |-> "idle", privateKey |-> <<>>,
               encrypted |-> Failure(""), decrypted |-> Failure("")]

\* securityManager.encryptPrivateKey(privateKey)
CipherEncrypt ==
    /\ cipher.pc = "start"
    /\ cipher' = [cipher EXCEPT !.pc = "encrypted",
                     !.encrypted = encryptPrivateKey(encryptionKey, cipher.privateKey)]
    /\ UNCHANGED <<encryptionKey, secureStore, initCall, clock, objs, wallets,
                   generatedKeys, createCall, balanceCall, sendCall,
                   swapCall, swapObjs, swapTransactions, demoCall, passwordCall,
                   asyncStorage, currentUser, isAuthenticated, authCall,
                   cancelCall, apiKeys, cachedConfig, configCall, saveCall,
                   priceCache, priceCall>>

\* securityManager.decryptPrivateKey(encrypted)
CipherDecrypt ==
    /\ cipher.pc = "encrypted"
    /\ cipher.encrypted.ok
    /\ cipher' = [cipher EXCEPT !.pc = "decrypted",
                     !.decrypted = decryptPrivateKey(encryptionKey, cipher.encrypted.val)]
    /\ UNCHANGED <<encryptionKey, secureStore, initCall, clock, objs, wallets,
                   generatedKeys, createCall, balanceCall, sendCall,
                   swapCall, swapObjs, swapTransactions, demoCall, passwordCall,
                   asyncStorage, currentUser, isAuthenticated, authCall,
                   cancelCall, apiKeys, cachedConfig, configCall, saveCall,
                   priceCache, priceCall>>

\* Code units of the texts handed to decryptPrivateKey: '0', 'f', '=', ' ', '#'
CipherAlphabet == {48, 102, 61, 32, 35}

Ciphertexts == UNION {[1..n -> CipherAlphabet] : n \in 0..(MaxLen + 1)}

\* securityManager.decryptPrivateKey(text) on a text from elsewhere
CipherDecryptGiven ==
    /\ cipher.pc = "given"
    /\ cipher' = [cipher EXCEPT !.pc = "decrypted",
                     !.decrypted = decryptPrivateKey(encryptionKey, cipher.encrypted.val)]
    /\ UNCHANGED <<encryptionKey, secureStore, initCall, clock, objs, wallets,
                   generatedKeys, createCall, balanceCall, sendCall,
                   swapCall, swapObjs, swapTransactions, demoCall, passwordCall,
                   asyncStorage, currentUser, isAuthenticated, authCall,
                   cancelCall, apiKeys, cachedConfig, configCall, saveCall,
                   priceCache, priceCall>>

----------------------------------------------------------------------------
(* SwapService.executeSwap and simulateSwapExecution *)

\* the callers whose executeSwap calls may overlap
Swappers == {"x1"}

PENDING == "pending"
COMPLETED == "completed"
FAILED == "failed"

NoSwap == 0

SwapIdle ==
    [pc |-> "idle", fromWalletId |-> <<>>, toWalletId |-> <<>>,
     fromAmount |-> 0, toAmount |-> 0, fromWallet |-> NoWallet,
     kind |-> "none", swap |-> NoSwap]

\* catch: 'Failed to execute swap'
SwapFailed(call) == [call EXCEPT !.pc = "done", !.kind = "error"]

\* lines 149-162: both wallets are looked up; if they are there and of one
\* user, getBalance(fromWalletId) is called, finds the wallet and queries the
\* chain
ExecuteSwap(x, fromWalletId, toWalletId, fromAmount, toAmount) ==
    /\ swapCall[x].pc = "idle"
    /\ LET call == [SwapIdle EXCEPT !.fromWalletId = fromWalletId,
                                    !.toWalletId = toWalletId,
                                    !.fromAmount = fromAmount,
                                    !.toAmount = toAmount]
           fromWallet == getWallet(fromWalletId)
           toWallet == getWallet(toWalletId)
       IN  IF fromWallet = NoWallet \/ toWallet = NoWallet
           THEN /\ swapCall' = [swapCall EXCEPT ![x] = SwapFailed(call)]
                /\ UNCHANGED balanceCall
           ELSE IF objs[fromWallet].userId # objs[toWallet].userId
           THEN /\ swapCall' = [swapCall EXCEPT ![x] = SwapFailed(call)]
                /\ UNCHANGED balanceCall
           ELSE /\ swapCall' = [swapCall EXCEPT ![x] = [call EXCEPT !.pc = "balance", !.fromWallet = fromWallet]]
                /\ balanceCall' = [balanceCall EXCEPT ![x] =
                      [BalanceIdle EXCEPT !.pc = "query", !.walletId = fromWalletId,
                                          !.wallet = fromWallet]]
    /\ UNCHANGED <<encryptionKey, secureStore, initCall, clock, objs, wallets,
                   generatedKeys, createCall, sendCall, cipher,
                   swapObjs, swapTransactions, demoCall, passwordCall,
                   asyncStorage, currentUser, isAuthenticated, authCall,
                   cancelCall, apiKeys, cachedConfig, configCall, saveCall,
                   priceCache, priceCall>>

\* lines 171-182: the SwapTransaction object
NewSwap(call, fromWallet, now) ==
    [id |-> <<"swap", now>>,
     userId |-> objs[fromWallet].userId,
     fromWalletId |-> call.fromWalletId,
     toWalletId |-> call.toWalletId,
     fromAmount |-> call.fromAmount,
     toAmount |-> call.toAmount,
     status |-> PENDING,
     txHash |-> NoHash]

\* lines 162-187: getBalance has returned.  Too small a balance fails the
\* call; else the swap is recorded as pending and simulateSwapExecution starts
\* its timer.
SwapBalanceReturned(x, now) ==
    /\ swapCall[x].pc = "balance"
    /\ balanceCall[x].pc = "done"
    /\ now >= clock
    /\ LET call == swapCall[x]
       IN  IF balanceCall[x].value < call.fromAmount
           THEN /\ now = clock
                /\ swapCall' = [swapCall EXCEPT ![x] = SwapFailed(call)]
                /\ UNCHANGED <<clock, swapObjs, swapTransactions>>
           ELSE /\ clock' = now
                /\ swapObjs' = Append(swapObjs, NewSwap(call, call.fromWallet, now))
                /\ swapTransactions' =
                      MapSet(swapTransactions, <<"swap", now>>, Len(swapObjs) + 1)
                /\ swapCall' = [swapCall EXCEPT ![x] =
                      [call EXCEPT !.pc = "timer", !.swap = Len(swapObjs) + 1]]
    /\ UNCHANGED <<encryptionKey, secureStore, initCall, objs, wallets,
                   generatedKeys, createCall, balanceCall, sendCall, cipher,
                   demoCall, passwordCall,
                   asyncStorage, currentUser, isAuthenticated, authCall,
                   cancelCall, apiKeys, cachedConfig, configCall, saveCall,
                   priceCache, priceCall>>

\* A faulty balance move: the target becomes a copy of the source object
SwapBalancesCopying(call) ==
    LET fromWallet == getWallet(call.fromWalletId)
        toWallet == getWallet(call.toWalletId)
        debited == [objs EXCEPT ![fromWallet].balance = @ - call.fromAmount]
        credited == [debited EXCEPT ![toWallet] =
                       [objs[fromWallet] EXCEPT !.balance = objs[toWallet].balance + call.toAmount]]
    IN  IF fromWallet # NoWallet /\ toWallet # NoWallet
        THEN [objs |-> credited,
              wallets |-> MapSet(MapSet(wallets, objs[fromWallet].id, fromWallet),
                                 objs[toWallet].id, toWallet)]
        ELSE [objs |-> objs, wallets |-> wallets]

\* lines 208-218: the balances of the two wallets found now move, and both
\* are handed to updateWallet; a wallet that is gone leaves both untouched
SwapBalances(call) ==
    LET fromWallet == getWallet(call.fromWalletId)
        toWallet == getWallet(call.toWalletId)
        debited == [objs EXCEPT ![fromWallet].balance = @ - call.fromAmount]
        credited == [debited EXCEPT ![toWallet].balance = @ + call.toAmount]
    IN  IF fromWallet # NoWallet /\ toWallet # NoWallet
        THEN [objs |-> credited,
              wallets |-> MapSet(MapSet(wallets, objs[fromWallet].id, fromWallet),
                                 objs[toWallet].id, toWallet)]
        ELSE [objs |-> objs, wallets |-> wallets]

\* lines 199-224: the timer has fired.  A swap that succeeds is marked
\* completed and moves the balances; one that does not is marked failed.  The
\* object is put back under its id and executeSwap returns it.
SwapTimer(x, now, isSuccess) ==
    /\ swapCall[x].pc = "timer"
    /\ now >= clock
    /\ LET call == swapCall[x]
           id == swapObjs[call.swap].id
       IN  /\ IF isSuccess
              THEN /\ clock' = now
                   /\ swapObjs' = [swapObjs EXCEPT
                         ![call.swap].status = COMPLETED,
                         ![call.swap].txHash = [tag |-> "swap_tx", time |-> now, nonce |-> "r"]]
                   /\ objs' = SwapBalances(call).objs
                   /\ wallets' = SwapBalances(call).wallets
              ELSE /\ now = clock
                   /\ swapObjs' = [swapObjs EXCEPT ![call.swap].status = FAILED]
                   /\ UNCHANGED <<clock, objs, wallets>>
           /\ swapTransactions' = MapSet(swapTransactions, id, call.swap)
           /\ swapCall' = [swapCall EXCEPT ![x] = [call EXCEPT !.pc = "done", !.kind = "swap"]]
    /\ UNCHANGED <<encryptionKey, secureStore, initCall, generatedKeys,
                   createCall, balanceCall, sendCall, cipher, demoCall, passwordCall,
                   asyncStorage, currentUser, isAuthenticated, authCall,
                   cancelCall, apiKeys, cachedConfig, configCall, saveCall,
                   priceCache, priceCall>>

\* SwapService.cancelSwap, lines 258-272

CancelIdle ==
    [pc |-> "idle", swapId |-> <<>>, userId |-> "", swap |-> NoSwap, result |-> FALSE]

\* this.swapTransactions.get(swapId): the reference, or NoSwap for undefined
getSwap(swapId) ==
    IF MapHas(swapTransactions, swapId) THEN MapGet(swapTransactions, swapId) ELSE NoSwap

\* line 265: swap.status === SwapStatus.PENDING
Cancellable(swap) == swapObjs[swap].status = PENDING

\* cancelSwap(swapId, userId) has no await and runs in one step: false for a
\* swap that is unknown or of another user; a pending swap is marked failed
\* and put back under its id, with true; false for any other swap
CancelSwap(swapId, userId) ==
    /\ LET swap == getSwap(swapId)
           call == [CancelIdle EXCEPT !.pc = "done", !.swapId = swapId,
                                      !.userId = userId, !.swap = swap]
       IN  IF swap = NoSwap \/ swapObjs[swap].userId # userId
           THEN /\ cancelCall' = [call EXCEPT !.result = FALSE]
                /\ UNCHANGED <<swapObjs, swapTransactions>>
           ELSE IF Cancellable(swap)
           THEN /\ swapObjs' = [swapObjs EXCEPT ![swap].status = FAILED]
                /\ swapTransactions' = MapSet(swapTransactions, swapId, swap)
                /\ cancelCall' = [call EXCEPT !.result = TRUE]
           ELSE /\ cancelCall' = [call EXCEPT !.result = FALSE]
                /\ UNCHANGED <<swapObjs, swapTransactions>>
    /\ UNCHANGED <<encryptionKey, secureStore, initCall, clock, objs, wallets,
                   generatedKeys, createCall, balanceCall, sendCall, cipher,
                   swapCall, demoCall, passwordCall,
                   asyncStorage, currentUser, isAuthenticated, authCall,
                   apiKeys, cachedConfig, configCall, saveCall, priceCache,
                   priceCall>>

----------------------------------------------------------------------------
(* WalletService.initializeDemoWallets *)

\* the callers whose initializeDemoWallets calls may overlap
DemoCallers == {"d1"}

DemoIdle == [pc |-> "idle", userId |-> "", kind |-> "none"]

\* the demo balances: 0.1 to 5 ETH, 0.001 to 0.1 BTC, 5 to 100 SOL
DemoBalances == 1..MaxBalance

\* initializeDemoWallets(userId) is called: it returns if the user has
\* wallets, else createWallet(userId, ETHEREUM) runs up to its first await
InitializeDemoWallets(d, userId) ==
    /\ demoCall[d].pc = "idle"
    /\ IF Len(getWalletsByUserId(userId)) > 0
       THEN /\ demoCall' = [demoCall EXCEPT ![d] =
                  [DemoIdle EXCEPT !.pc = "done", !.userId = userId, !.kind = "returned"]]
            /\ UNCHANGED createCall
       ELSE /\ demoCall' = [demoCall EXCEPT ![d] =
                  [DemoIdle EXCEPT !.pc = ETHEREUM, !.userId = userId]]
            /\ \E bytes \in SecretBytes :
                  createCall' = [createCall EXCEPT ![d] =
                     CreateEncrypting([CreateIdle EXCEPT !.userId = userId,
                                                         !.type = ETHEREUM], bytes)]
    /\ UNCHANGED <<encryptionKey, secureStore, initCall, clock, objs, wallets,
                   generatedKeys, balanceCall, sendCall, cipher,
                   swapCall, swapObjs, swapTransactions, passwordCall,
                   asyncStorage, currentUser, isAuthenticated, authCall,
                   cancelCall, apiKeys, cachedConfig, configCall, saveCall,
                   priceCache, priceCall>>

\* catch: the failure is logged and the call returns
DemoFailed(call) == [call EXCEPT !.pc = "done", !.kind = "caught"]

\* lines 535-537: a createWallet has settled.  Its failure ends the call in
\* the catch; else the next createWallet runs up to its first await.
DemoNextWallet(d) ==
    /\ demoCall[d].pc \in {ETHEREUM, BITCOIN}
    /\ createCall[d].pc = "done"
    /\ LET call == [CreateIdle EXCEPT !.userId = demoCall[d].userId]
       IN  IF createCall[d].kind = "error"
           THEN /\ demoCall' = [demoCall EXCEPT ![d] = DemoFailed(demoCall[d])]
                /\ UNCHANGED createCall
           ELSE IF demoCall[d].pc = ETHEREUM
           THEN /\ demoCall' = [demoCall EXCEPT ![d].pc = BITCOIN]
                /\ createCall' = [createCall EXCEPT ![d] =
                      [call EXCEPT !.pc = "random", !.type = BITCOIN]]
           ELSE /\ demoCall' = [demoCall EXCEPT ![d].pc = SOLANA]
                /\ \E bytes \in SecretBytes :
                      createCall' = [createCall EXCEPT ![d] =
                         CreateEncrypting([call EXCEPT !.type = SOLANA], bytes)]
    /\ UNCHANGED <<encryptionKey, secureStore, initCall, clock, objs, wallets,
                   generatedKeys, balanceCall, sendCall, cipher,
                   swapCall, swapObjs, swapTransactions, passwordCall,
                   asyncStorage, currentUser, isAuthenticated, authCall,
                   cancelCall, apiKeys, cachedConfig, configCall, saveCall,
                   priceCache, priceCall>>

\* updateWallet on each of the references, in order
RECURSIVE UpdateAll(_, _)
UpdateAll(m, refs) ==
    IF refs = <<>> THEN m
    ELSE UpdateAll(MapSet(m, objs[Head(refs)].id, Head(refs)), Tail(refs))

\* lines 540-562: the third createWallet has settled.  Its failure ends the
\* call in the catch; else every wallet of the user gets a demo balance and is
\* handed to updateWallet.
DemoBalancesSet(d) ==
    /\ demoCall[d].pc = SOLANA
    /\ createCall[d].pc = "done"
    /\ IF createCall[d].kind = "error"
       THEN /\ demoCall' = [demoCall EXCEPT ![d] = DemoFailed(demoCall[d])]
            /\ UNCHANGED <<objs, wallets>>
       ELSE LET userWallets == getWalletsByUserId(demoCall[d].userId)
                refs == {userWallets[i] : i \in 1..Len(userWallets)}
            IN  /\ \E balance \in [refs -> DemoBalances] :
                      objs' = [r \in 1..Len(objs) |->
                                 IF r \in refs THEN [objs[r] EXCEPT !.balance = balance[r]]
                                 ELSE objs[r]]
                /\ wallets' = UpdateAll(wallets, userWallets)
                /\ demoCall' = [demoCall EXCEPT ![d] =
                      [demoCall[d] EXCEPT !.pc = "done", !.kind = "done"]]
    /\ UNCHANGED <<encryptionKey, secureStore, initCall, clock, generatedKeys,
                   createCall, balanceCall, sendCall, cipher,
                   swapCall, swapObjs, swapTransactions, passwordCall,
                   asyncStorage, currentUser, isAuthenticated, authCall,
                   cancelCall, apiKeys, cachedConfig, configCall, saveCall,
                   priceCache, priceCall>>

----------------------------------------------------------------------------
(* SecurityManager.hashPassword and verifyPassword *)

\* Crypto.digestStringAsync(SHA256, text) of expo-crypto: a digest, the same
\* for the same text, in lower-case hex.  The digest here is one byte, a
\* weighted sum of the text's code units, so that texts collide.
RECURSIVE WeightedSum(_)
WeightedSum(text) ==
    IF text = <<>> THEN 0
    ELSE (31 * WeightedSum(SubSeq(text, 1, Len(text) - 1))
          + text[Len(text)] + Len(text)) % 256

digestString(text) == HexString(<<WeightedSum(text)>>)

PasswordIdle ==
    [pc |-> "idle", password |-> <<>>, hash |-> Failure(""),
     candidate |-> <<>>, passwordHash |-> Failure(""), verified |-> Failure("")]

\* hashPassword(password) is called and awaits the digest
HashPassword(password) ==
    /\ passwordCall.pc = "idle"
    /\ passwordCall' = [PasswordIdle EXCEPT !.pc = "hash", !.password = password]
    /\ UNCHANGED <<encryptionKey, secureStore, initCall, clock, objs, wallets,
                   generatedKeys, createCall, balanceCall, sendCall, cipher,
                   swapCall, swapObjs, swapTransactions, demoCall,
                   asyncStorage, currentUser, isAuthenticated, authCall,
                   cancelCall, apiKeys, cachedConfig, configCall, saveCall,
                   priceCache, priceCall>>

\* the digest arrives and is returned
HashDigested ==
    /\ passwordCall.pc = "hash"
    /\ passwordCall' = [passwordCall EXCEPT !.pc = "hashed",
                           !.hash = Success(digestString(passwordCall.password))]
    /\ UNCHANGED <<encryptionKey, secureStore, initCall, clock, objs, wallets,
                   generatedKeys, createCall, balanceCall, sendCall, cipher,
                   swapCall, swapObjs, swapTransactions, demoCall,
                   asyncStorage, currentUser, isAuthenticated, authCall,
                   cancelCall, apiKeys, cachedConfig, configCall, saveCall,
                   priceCache, priceCall>>

\* the digest is rejected: 'Failed to hash password'
HashDigestFailed ==
    /\ passwordCall.pc = "hash"
    /\ passwordCall' = [passwordCall EXCEPT !.pc = "done",
                           !.hash = Failure("Failed to hash password")]
    /\ UNCHANGED <<encryptionKey, secureStore, initCall, clock, objs, wallets,
                   generatedKeys, createCall, balanceCall, sendCall, cipher,
                   swapCall, swapObjs, swapTransactions, demoCall,
                   asyncStorage, currentUser, isAuthenticated, authCall,
                   cancelCall, apiKeys, cachedConfig, configCall, saveCall,
                   priceCache, priceCall>>

\* verifyPassword(candidate, hash) is called on the hash returned, and awaits
\* hashPassword(candidate)
VerifyPassword(candidate) ==
    /\ passwordCall.pc = "hashed"
    /\ passwordCall' = [passwordCall EXCEPT !.pc = "verify", !.candidate = candidate]
    /\ UNCHANGED <<encryptionKey, secureStore, initCall, clock, objs, wallets,
                   generatedKeys, createCall, balanceCall, sendCall, cipher,
                   swapCall, swapObjs, swapTransactions, demoCall,
                   asyncStorage, currentUser, isAuthenticated, authCall,
                   cancelCall, apiKeys, cachedConfig, configCall, saveCall,
                   priceCache, priceCall>>

\* passwordHash === hash
VerifyCompared(call, passwordHash) ==
    [call EXCEPT !.pc = "done", !.passwordHash = Success(passwordHash),
                 !.verified = Success(passwordHash = call.hash.val)]

\* hashPassword(candidate) has returned its digest
VerifyDigested ==
    /\ passwordCall.pc = "verify"
    /\ passwordCall' = VerifyCompared(passwordCall, digestString(passwordCall.candidate))
    /\ UNCHANGED <<encryptionKey, secureStore, initCall, clock, objs, wallets,
                   generatedKeys, createCall, balanceCall, sendCall, cipher,
                   swapCall, swapObjs, swapTransactions, demoCall,
                   asyncStorage, currentUser, isAuthenticated, authCall,
                   cancelCall, apiKeys, cachedConfig, configCall, saveCall,
                   priceCache, priceCall>>

\* A faulty catch: the error of hashPassword is thrown on
VerifyRethrown(call) ==
    [call EXCEPT !.pc = "done", !.passwordHash = Failure("Failed to hash password"),
                 !.verified = Failure("Failed to hash password")]

\* catch: the error is logged and false is returned
VerifyCaught(call) ==
    [call EXCEPT !.pc = "done", !.passwordHash = Failure("Failed to hash password"),
                 !.verified = Success(FALSE)]

\* hashPassword(candidate) has thrown
VerifyDigestFailed ==
    /\ passwordCall.pc = "verify"
    /\ passwordCall' = VerifyCaught(passwordCall)
    /\ UNCHANGED <<encryptionKey, secureStore, initCall, clock, objs, wallets,
                   generatedKeys, createCall, balanceCall, sendCall, cipher,
                   swapCall, swapObjs, swapTransactions, demoCall,
                   asyncStorage, currentUser, isAuthenticated, authCall,
                   cancelCall, apiKeys, cachedConfig, configCall, saveCall,
                   priceCache, priceCall>>

----------------------------------------------------------------------------
(* AuthService.  A request to AsyncStorage takes effect, or is rejected,     *)
(* when it is made, and its promise settles in a later step: the store       *)
(* serves its requests in the order in which they were made.                 *)

\* the callers whose AuthService calls may overlap
\* the app, which makes one call at a time
AuthCallers == {"a1"}

NoUser == [id |-> <<>>, email |-> "", username |-> ""]
NoSession == [userId |-> <<>>, expiresAt |-> 0]

\* 7 days, in milliseconds
SessionLifetime == 7 * 24 * 60 * 60 * 1000

EmptyStorage == [users |-> <<>>, session |-> NoSession, user |-> NoUser]

AuthIdle ==
    [op |-> "none", pc |-> "idle", email |-> "", username |-> "", password |-> <<>>,
     users |-> <<>>, found |-> 0, user |-> NoUser, session |-> NoSession,
     rejected |-> FALSE, caught |-> FALSE, outcome |-> "none", message |-> ""]

AuthFresh ==
    /\ asyncStorage = EmptyStorage
    /\ currentUser = NoUser
    /\ isAuthenticated = FALSE
    /\ authCall = [a \in AuthCallers |-> AuthIdle]

\* the call throws
AuthThrew(call, message) ==
    [call EXCEPT !.pc = "done", !.outcome = "error", !.message = message]

\* the call returns
AuthReturned(call) == [call EXCEPT !.pc = "done", !.outcome = "ok"]

\* the User object without the password
PublicUser(u) == [id |-> u.id, email |-> u.email, username |-> u.username]

\* getStoredUsers: the list read, or [] when the read is rejected
StoredUsers(rejected) == IF rejected THEN <<>> ELSE asyncStorage.users

\* register(email, username, password) is called and awaits getStoredUsers
Register(a, email, username, password, rejected) ==
    /\ authCall[a].pc \in {"idle", "done"}
    /\ authCall' = [authCall EXCEPT ![a] =
          [AuthIdle EXCEPT !.op = "register", !.pc = "reg_users", !.email = email,
                           !.username = username, !.password = password,
                           !.users = StoredUsers(rejected)]]
    /\ UNCHANGED <<encryptionKey, secureStore, initCall, clock, objs, wallets,
                   generatedKeys, createCall, balanceCall, sendCall, cipher,
                   swapCall, swapObjs, swapTransactions, demoCall, passwordCall,
                   asyncStorage, currentUser, isAuthenticated, cancelCall,
                   apiKeys, cachedConfig, configCall, saveCall, priceCache,
                   priceCall>>

\* lines 49-51: existingUsers.find(...)
ExistingUser(call) ==
    \E i \in 1..Len(call.users) :
       call.users[i].email = call.email \/ call.users[i].username = call.username

\* lines 48-58: the list has arrived.  A user with the email or the username
\* ends the call with an error; else hashPassword is called and awaited.
RegisterUsersRead(a) ==
    /\ authCall[a].pc = "reg_users"
    /\ authCall' = [authCall EXCEPT ![a] =
          IF ExistingUser(authCall[a])
          THEN AuthThrew(authCall[a], "User with this email or username already exists")
          ELSE [authCall[a] EXCEPT !.pc = "reg_hash"]]
    /\ UNCHANGED <<encryptionKey, secureStore, initCall, clock, objs, wallets,
                   generatedKeys, createCall, balanceCall, sendCall, cipher,
                   swapCall, swapObjs, swapTransactions, demoCall, passwordCall,
                   asyncStorage, currentUser, isAuthenticated, cancelCall,
                   apiKeys, cachedConfig, configCall, saveCall, priceCache,
                   priceCall>>

\* lines 58-72: the hash has arrived, or hashPassword has thrown.  The user
\* gets the id `user_${Date.now()}`, is pushed on the list read, and the list
\* is written to 'users'.
RegisterHashed(a, now, failed, rejected) ==
    /\ authCall[a].pc = "reg_hash"
    /\ now >= clock
    /\ LET call == authCall[a]
           user == [id |-> <<"user", now>>, email |-> call.email,
                    username |-> call.username]
           userWithPassword ==
              [id |-> user.id, email |-> user.email, username |-> user.username,
               password |-> digestString(call.password)]
           existingUsers == Append(call.users, userWithPassword)
       IN  IF failed
           THEN /\ now = clock
                /\ ~rejected
                /\ authCall' = [authCall EXCEPT ![a] =
                      AuthThrew(call, "Failed to hash password")]
                /\ UNCHANGED <<clock, asyncStorage>>
           ELSE /\ clock' = now
                /\ authCall' = [authCall EXCEPT ![a] =
                      [call EXCEPT !.pc = "reg_store", !.user = user,
                                   !.users = existingUsers, !.rejected = rejected]]
                /\ asyncStorage' = IF rejected THEN asyncStorage
                                   ELSE [asyncStorage EXCEPT !.users = existingUsers]
    /\ UNCHANGED <<encryptionKey, secureStore, initCall, objs, wallets,
                   generatedKeys, createCall, balanceCall, sendCall, cipher,
                   swapCall, swapObjs, swapTransactions, demoCall, passwordCall,
                   currentUser, isAuthenticated, cancelCall, apiKeys,
                   cachedConfig, configCall, saveCall, priceCache, priceCall>>

\* createSession, lines 216-222: the session object, written to
\* SESSION_STORAGE_KEY
NewSession(user, now) == [userId |-> user.id, expiresAt |-> now + SessionLifetime]

\* createSession is called: the session is written and the write awaited
SessionCreating(a, call, now, rejected) ==
    /\ clock' = now
    /\ authCall' = [authCall EXCEPT ![a] =
          [call EXCEPT !.pc = "session", !.rejected = rejected]]
    /\ asyncStorage' = IF rejected THEN asyncStorage
                       ELSE [asyncStorage EXCEPT !.session = NewSession(call.user, now)]

\* line 72: the write of 'users' has settled; its rejection ends the call,
\* else createSession is called
RegisterStored(a, now, rejected) ==
    /\ authCall[a].pc = "reg_store"
    /\ now >= clock
    /\ IF authCall[a].rejected
       THEN /\ now = clock
            /\ ~rejected
            /\ authCall' = [authCall EXCEPT ![a] = AuthThrew(authCall[a], "storage")]
            /\ UNCHANGED <<clock, asyncStorage>>
       ELSE SessionCreating(a, authCall[a], now, rejected)
    /\ UNCHANGED <<encryptionKey, secureStore, initCall, objs, wallets,
                   generatedKeys, createCall, balanceCall, sendCall, cipher,
                   swapCall, swapObjs, swapTransactions, demoCall, passwordCall,
                   currentUser, isAuthenticated, cancelCall, apiKeys,
                   cachedConfig, configCall, saveCall, priceCache, priceCall>>

\* line 222: the write of the session has settled; its rejection ends the
\* call, else the user is written to USER_STORAGE_KEY
SessionStored(a, rejected) ==
    /\ authCall[a].pc = "session"
    /\ IF authCall[a].rejected
       THEN /\ ~rejected
            /\ authCall' = [authCall EXCEPT ![a] = AuthThrew(authCall[a], "storage")]
            /\ UNCHANGED asyncStorage
       ELSE /\ authCall' = [authCall EXCEPT ![a] =
                  [authCall[a] EXCEPT !.pc = "session_user", !.rejected = rejected]]
            /\ asyncStorage' = IF rejected THEN asyncStorage
                               ELSE [asyncStorage EXCEPT !.user = authCall[a].user]
    /\ UNCHANGED <<encryptionKey, secureStore, initCall, clock, objs, wallets,
                   generatedKeys, createCall, balanceCall, sendCall, cipher,
                   swapCall, swapObjs, swapTransactions, demoCall, passwordCall,
                   currentUser, isAuthenticated, cancelCall, apiKeys,
                   cachedConfig, configCall, saveCall, priceCache, priceCall>>

\* lines 77-80 and 116-119: createSession has returned, or thrown; the user
\* becomes the current user and the call returns it
SessionUserStored(a) ==
    /\ authCall[a].pc = "session_user"
    /\ IF authCall[a].rejected
       THEN /\ authCall' = [authCall EXCEPT ![a] = AuthThrew(authCall[a], "storage")]
            /\ UNCHANGED <<currentUser, isAuthenticated>>
       ELSE /\ authCall' = [authCall EXCEPT ![a] = AuthReturned(authCall[a])]
            /\ currentUser' = authCall[a].user
            /\ isAuthenticated' = TRUE
    /\ UNCHANGED <<encryptionKey, secureStore, initCall, clock, objs, wallets,
                   generatedKeys, createCall, balanceCall, sendCall, cipher,
                   swapCall, swapObjs, swapTransactions, demoCall, passwordCall,
                   asyncStorage, cancelCall, apiKeys, cachedConfig, configCall,
                   saveCall, priceCache, priceCall>>

\* login(email, password) is called and awaits getStoredUsers.  The record
\* of the call keeps the session that was stored when it was made.
Login(a, email, password, rejected) ==
    /\ authCall[a].pc \in {"idle", "done"}
    /\ authCall' = [authCall EXCEPT ![a] =
          [AuthIdle EXCEPT !.op = "login", !.pc = "login_users", !.email = email,
                           !.password = password, !.users = StoredUsers(rejected),
                           !.session = asyncStorage.session]]
    /\ UNCHANGED <<encryptionKey, secureStore, initCall, clock, objs, wallets,
                   generatedKeys, createCall, balanceCall, sendCall, cipher,
                   swapCall, swapObjs, swapTransactions, demoCall, passwordCall,
                   asyncStorage, currentUser, isAuthenticated, cancelCall,
                   apiKeys, cachedConfig, configCall, saveCall, priceCache,
                   priceCall>>

\* users.find(user => user.email === email): the first one, or 0
FindByEmail(users, email) ==
    IF \E i \in 1..Len(users) : users[i].email = email
    THEN CHOOSE i \in 1..Len(users) :
            /\ users[i].email = email
            /\ \A j \in 1..(i - 1) : users[j].email # email
    ELSE 0

\* lines 89-99: the list has arrived.  Without a user of the email the call
\* ends with an error; else verifyPassword is called and awaited.
LoginUsersRead(a) ==
    /\ authCall[a].pc = "login_users"
    /\ LET call == authCall[a]
           found == FindByEmail(call.users, call.email)
       IN  authCall' = [authCall EXCEPT ![a] =
              IF found = 0 THEN AuthThrew(call, "Invalid email or password")
              ELSE [call EXCEPT !.pc = "login_verify", !.found = found]]
    /\ UNCHANGED <<encryptionKey, secureStore, initCall, clock, objs, wallets,
                   generatedKeys, createCall, balanceCall, sendCall, cipher,
                   swapCall, swapObjs, swapTransactions, demoCall, passwordCall,
                   asyncStorage, currentUser, isAuthenticated, cancelCall,
                   apiKeys, cachedConfig, configCall, saveCall, priceCache,
                   priceCall>>

\* verifyPassword(password, userWithPassword.password): false when the
\* hashing fails
IsValidPassword(call, failed) ==
    /\ ~failed
    /\ digestString(call.password) = call.users[call.found].password

\* lines 96-114: verifyPassword has returned.  A wrong password ends the call
\* with an error; else createSession is called for the user found.
LoginVerified(a, now, failed, rejected) ==
    /\ authCall[a].pc = "login_verify"
    /\ now >= clock
    /\ LET call == authCall[a]
       IN  IF ~IsValidPassword(call, failed)
           THEN /\ now = clock
                /\ ~rejected
                /\ authCall' = [authCall EXCEPT ![a] =
                      AuthThrew(call, "Invalid email or password")]
                /\ UNCHANGED <<clock, asyncStorage>>
           ELSE SessionCreating(a, [call EXCEPT !.user = PublicUser(call.users[call.found])],
                                now, rejected)
    /\ UNCHANGED <<encryptionKey, secureStore, initCall, objs, wallets,
                   generatedKeys, createCall, balanceCall, sendCall, cipher,
                   swapCall, swapObjs, swapTransactions, demoCall, passwordCall,
                   currentUser, isAuthenticated, cancelCall, apiKeys,
                   cachedConfig, configCall, saveCall, priceCache, priceCall>>

\* clearSession is called: SESSION_STORAGE_KEY is removed and the removal
\* awaited
SessionClearing(a, call, rejected) ==
    /\ authCall' = [authCall EXCEPT ![a] =
          [call EXCEPT !.pc = "clear_session", !.rejected = rejected]]
    /\ asyncStorage' = IF rejected THEN asyncStorage
                       ELSE [asyncStorage EXCEPT !.session = NoSession]

\* logout() is called
Logout(a, rejected) ==
    /\ authCall[a].pc \in {"idle", "done"}
    /\ SessionClearing(a, [AuthIdle EXCEPT !.op = "logout"], rejected)
    /\ UNCHANGED <<encryptionKey, secureStore, initCall, clock, objs, wallets,
                   generatedKeys, createCall, balanceCall, sendCall, cipher,
                   swapCall, swapObjs, swapTransactions, demoCall, passwordCall,
                   currentUser, isAuthenticated, cancelCall, apiKeys,
                   cachedConfig, configCall, saveCall, priceCache, priceCall>>

\* clearSession has thrown.  logout throws the error on; initialize catches
\* it once and calls clearSession again, and throws what that call throws.
ClearFailed(a, rejected) ==
    IF authCall[a].op = "initialize" /\ ~authCall[a].caught
    THEN SessionClearing(a, [authCall[a] EXCEPT !.caught = TRUE], rejected)
    ELSE /\ ~rejected
         /\ authCall' = [authCall EXCEPT ![a] = AuthThrew(authCall[a], "storage")]
         /\ UNCHANGED asyncStorage

\* line 225: the removal of the session has settled; USER_STORAGE_KEY is
\* removed next
SessionRemoved(a, rejected) ==
    /\ authCall[a].pc = "clear_session"
    /\ IF authCall[a].rejected
       THEN ClearFailed(a, rejected)
       ELSE /\ authCall' = [authCall EXCEPT ![a] =
                  [authCall[a] EXCEPT !.pc = "clear_user", !.rejected = rejected]]
            /\ asyncStorage' = IF rejected THEN asyncStorage
                               ELSE [asyncStorage EXCEPT !.user = NoUser]
    /\ UNCHANGED <<encryptionKey, secureStore, initCall, clock, objs, wallets,
                   generatedKeys, createCall, balanceCall, sendCall, cipher,
                   swapCall, swapObjs, swapTransactions, demoCall, passwordCall,
                   currentUser, isAuthenticated, cancelCall, apiKeys,
                   cachedConfig, configCall, saveCall, priceCache, priceCall>>

\* line 226: clearSession has returned.  logout then forgets the current
\* user; initialize returns.
UserRemoved(a, rejected) ==
    /\ authCall[a].pc = "clear_user"
    /\ IF authCall[a].rejected
       THEN /\ ClearFailed(a, rejected)
            /\ UNCHANGED <<currentUser, isAuthenticated>>
       ELSE /\ ~rejected
            /\ authCall' = [authCall EXCEPT ![a] = AuthReturned(authCall[a])]
            /\ UNCHANGED asyncStorage
            /\ IF authCall[a].op = "logout"
               THEN currentUser' = NoUser /\ isAuthenticated' = FALSE
               ELSE UNCHANGED <<currentUser, isAuthenticated>>
    /\ UNCHANGED <<encryptionKey, secureStore, initCall, clock, objs, wallets,
                   generatedKeys, createCall, balanceCall, sendCall, cipher,
                   swapCall, swapObjs, swapTransactions, demoCall, passwordCall,
                   cancelCall, apiKeys, cachedConfig, configCall, saveCall,
                   priceCache, priceCall>>

\* The app starts: the module's AuthService is constructed (currentUser null,
\* isAuthenticated false) and the effect of App calls initialize(), which
\* awaits the read of SESSION_STORAGE_KEY.  The storage is what the earlier
\* run left.
AuthInitialize(a, rejected) ==
    /\ authCall[a].pc \in {"idle", "done"}
    /\ currentUser' = NoUser
    /\ isAuthenticated' = FALSE
    /\ authCall' = [authCall EXCEPT ![a] =
          [AuthIdle EXCEPT !.op = "initialize", !.pc = "init_session",
                           !.session = asyncStorage.session, !.rejected = rejected]]
    /\ UNCHANGED <<encryptionKey, secureStore, initCall, clock, objs, wallets,
                   generatedKeys, createCall, balanceCall, sendCall, cipher,
                   swapCall, swapObjs, swapTransactions, demoCall, passwordCall,
                   asyncStorage, cancelCall, apiKeys, cachedConfig, configCall,
                   saveCall, priceCache, priceCall>>

\* A faulty test: a session is live in the millisecond it expires
SessionLiveAtExpiry(session, now) == session.expiresAt >= now

\* line 27: session.expiresAt > Date.now()
SessionLive(session, now) == session.expiresAt > now

\* lines 25-37: the session has arrived.  Without one the call returns; one
\* that expires later than now has USER_STORAGE_KEY read; an expired one has
\* clearSession called.
InitSessionRead(a, now, rejected) ==
    /\ authCall[a].pc = "init_session"
    /\ now >= clock
    /\ clock' = now
    /\ LET call == authCall[a]
       IN  IF call.rejected
           THEN SessionClearing(a, [call EXCEPT !.caught = TRUE], rejected)
           ELSE IF call.session = NoSession
           THEN /\ ~rejected
                /\ authCall' = [authCall EXCEPT ![a] = AuthReturned(call)]
                /\ UNCHANGED asyncStorage
           ELSE IF SessionLive(call.session, now)
           THEN /\ authCall' = [authCall EXCEPT ![a] =
                      [call EXCEPT !.pc = "init_user", !.user = asyncStorage.user,
                                   !.rejected = rejected]]
                /\ UNCHANGED asyncStorage
           ELSE SessionClearing(a, call, rejected)
    /\ UNCHANGED <<encryptionKey, secureStore, initCall, objs, wallets,
                   generatedKeys, createCall, balanceCall, sendCall, cipher,
                   swapCall, swapObjs, swapTransactions, demoCall, passwordCall,
                   currentUser, isAuthenticated, cancelCall, apiKeys,
                   cachedConfig, configCall, saveCall, priceCache, priceCall>>

\* lines 29-33: the stored user has arrived and becomes the current user
InitUserRead(a, rejected) ==
    /\ authCall[a].pc = "init_user"
    /\ LET call == authCall[a]
       IN  IF call.rejected
           THEN /\ SessionClearing(a, [call EXCEPT !.caught = TRUE], rejected)
                /\ UNCHANGED <<currentUser, isAuthenticated>>
           ELSE /\ ~rejected
                /\ authCall' = [authCall EXCEPT ![a] = AuthReturned(call)]
                /\ UNCHANGED asyncStorage
                /\ IF call.user # NoUser
                   THEN currentUser' = call.user /\ isAuthenticated' = TRUE
                   ELSE UNCHANGED <<currentUser, isAuthenticated>>
    /\ UNCHANGED <<encryptionKey, secureStore, initCall, clock, objs, wallets,
                   generatedKeys, createCall, balanceCall, sendCall, cipher,
                   swapCall, swapObjs, swapTransactions, demoCall, passwordCall,
                   cancelCall, apiKeys, cachedConfig, configCall, saveCall,
                   priceCache, priceCall>>

----------------------------------------------------------------------------
(* ConfigService.getConfig and clearCache, and the API key prompt's          *)
(* handleSave                                                                *)

\* the order in which getConfig reads the entries api_key_<keyType>
KeyTypes == <<"infura", "coingecko", "custom_eth", "custom_btc", "custom_sol">>

\* null: no entry.  An entry is a string, as its code units.
NoValue == <<>>

NoApiKeys == [k \in {KeyTypes[i] : i \in 1..Len(KeyTypes)} |-> NoValue]

\* null, for the cached configuration
NoConfig == [ethereumRpcUrl |-> [kind |-> "none", value |-> NoValue],
             bitcoinRpcUrl |-> [kind |-> "none", value |-> NoValue],
             solanaRpcUrl |-> [kind |-> "none", value |-> NoValue],
             exchangeApiKey |-> [kind |-> "none", value |-> NoValue]]

\* a value of CONFIG
Default == [kind |-> "default", value |-> NoValue]

\* lines 83-88: the configuration of CONFIG
DefaultConfig == [ethereumRpcUrl |-> Default, bitcoinRpcUrl |-> Default,
                  solanaRpcUrl |-> Default, exchangeApiKey |-> Default]

\* a value the user stored
Custom(value) == [kind |-> "custom", value |-> value]

\* `https://mainnet.infura.io/v3/${infuraKey}`
InfuraUrl(infuraKey) == [kind |-> "infura", value |-> infuraKey]

\* the callers whose getConfig calls may overlap
ConfigCallers == {"c1", "c2"}

ConfigIdle ==
    [pc |-> "idle", next |-> 1, read |-> NoApiKeys, rejected |-> FALSE,
     source |-> "none", result |-> NoConfig]

SaveIdle == [pc |-> "idle", keyType |-> "", apiKey |-> NoValue, rejected |-> FALSE,
             outcome |-> "none"]

\* lines 53-76: the configuration built from the entries read; a || b is b
\* for a null and for an empty a
BuildConfig(read) ==
    [ethereumRpcUrl |->
        IF read["custom_eth"] # NoValue THEN Custom(read["custom_eth"])
        ELSE IF read["infura"] # NoValue THEN InfuraUrl(read["infura"])
        ELSE Default,
     bitcoinRpcUrl |->
        IF read["custom_btc"] # NoValue THEN Custom(read["custom_btc"]) ELSE Default,
     solanaRpcUrl |->
        IF read["custom_sol"] # NoValue THEN Custom(read["custom_sol"]) ELSE Default,
     exchangeApiKey |->
        IF read["coingecko"] # NoValue THEN Custom(read["coingecko"]) ELSE Default]

\* getConfig() is called: the cached configuration is returned, or the entry
\* api_key_infura is requested.  A request reads the storage, or is rejected,
\* when it is made; its promise settles in a later step.
GetConfig(c, rejected) ==
    /\ configCall[c].pc \in {"idle", "done"}
    /\ configCall' = [configCall EXCEPT ![c] =
          IF cachedConfig # NoConfig
          THEN [ConfigIdle EXCEPT !.pc = "done", !.source = "cache",
                                  !.result = cachedConfig]
          ELSE [ConfigIdle EXCEPT !.pc = "read", !.rejected = rejected,
                                  !.read[KeyTypes[1]] = apiKeys[KeyTypes[1]]]]
    /\ UNCHANGED <<encryptionKey, secureStore, initCall, clock, objs, wallets,
                   generatedKeys, createCall, balanceCall, sendCall, cipher,
                   swapCall, swapObjs, swapTransactions, demoCall,
                   passwordCall, asyncStorage, currentUser, isAuthenticated,
                   authCall, cancelCall, apiKeys, cachedConfig, saveCall,
                   priceCache, priceCall>>

\* lines 46-89: a request has settled.  A rejected one has the defaults
\* returned and nothing cached; after the others the next entry is requested,
\* and after the last the configuration is built, cached and returned.
ConfigItemRead(c, rejected) ==
    /\ configCall[c].pc = "read"
    /\ LET call == configCall[c]
           next == call.next + 1
       IN  IF call.rejected
           THEN /\ ~rejected
                /\ configCall' = [configCall EXCEPT ![c] =
                      [call EXCEPT !.pc = "done", !.source = "defaults",
                                   !.result = DefaultConfig]]
                /\ UNCHANGED cachedConfig
           ELSE IF call.next < Len(KeyTypes)
           THEN /\ configCall' = [configCall EXCEPT ![c] =
                      [call EXCEPT !.next = next, !.rejected = rejected,
                                   !.read[KeyTypes[next]] = apiKeys[KeyTypes[next]]]]
                /\ UNCHANGED cachedConfig
           ELSE /\ ~rejected
                /\ cachedConfig' = BuildConfig(call.read)
                /\ configCall' = [configCall EXCEPT ![c] =
                      [call EXCEPT !.pc = "done", !.source = "storage",
                                   !.result = BuildConfig(call.read)]]
    /\ UNCHANGED <<encryptionKey, secureStore, initCall, clock, objs, wallets,
                   generatedKeys, createCall, balanceCall, sendCall, cipher,
                   swapCall, swapObjs, swapTransactions, demoCall,
                   passwordCall, asyncStorage, currentUser, isAuthenticated,
                   authCall, cancelCall, apiKeys, saveCall, priceCache,
                   priceCall>>

\* white space, which String.prototype.trim removes
WhiteSpace == {9, 10, 32}

\* apiKey.trim()
RECURSIVE Trim(_)
Trim(text) ==
    IF text = <<>> THEN text
    ELSE IF Head(text) \in WhiteSpace THEN Trim(Tail(text))
    ELSE IF text[Len(text)] \in WhiteSpace THEN Trim(SubSeq(text, 1, Len(text) - 1))
    ELSE text

\* handleSave of the API key prompt, lines 714-722: a blank key is refused;
\* else the trimmed key is written to api_key_<keyType> and the write awaited
HandleSave(keyType, apiKey, rejected) ==
    /\ saveCall.pc \in {"idle", "done"}
    /\ LET call == [SaveIdle EXCEPT !.keyType = keyType, !.apiKey = apiKey]
       IN  IF Trim(apiKey) = <<>>
           THEN /\ ~rejected
                /\ saveCall' = [call EXCEPT !.pc = "done", !.outcome = "invalid"]
                /\ UNCHANGED apiKeys
           ELSE /\ saveCall' = [call EXCEPT !.pc = "stored", !.rejected = rejected]
                /\ apiKeys' = IF rejected THEN apiKeys
                              ELSE [apiKeys EXCEPT ![keyType] = Trim(apiKey)]
    /\ UNCHANGED <<encryptionKey, secureStore, initCall, clock, objs, wallets,
                   generatedKeys, createCall, balanceCall, sendCall, cipher,
                   swapCall, swapObjs, swapTransactions, demoCall,
                   passwordCall, asyncStorage, currentUser, isAuthenticated,
                   authCall, cancelCall, cachedConfig, configCall, priceCache,
                   priceCall>>

\* saveApiKey of the settings screen: the trimmed key is written to
\* api_key_<keyType>, or the entry removed for a blank key
SaveApiKey(keyType, apiKey, rejected) ==
    /\ saveCall.pc \in {"idle", "done"}
    /\ saveCall' = [SaveIdle EXCEPT !.keyType = keyType, !.apiKey = apiKey,
                                    !.pc = "stored", !.rejected = rejected]
    /\ apiKeys' = IF rejected THEN apiKeys
                  ELSE [apiKeys EXCEPT ![keyType] = Trim(apiKey)]
    /\ UNCHANGED <<encryptionKey, secureStore, initCall, clock, objs, wallets,
                   generatedKeys, createCall, balanceCall, sendCall, cipher,
                   swapCall, swapObjs, swapTransactions, demoCall,
                   passwordCall, asyncStorage, currentUser, isAuthenticated,
                   authCall, cancelCall, cachedConfig, configCall, priceCache,
                   priceCall>>

\* the write has settled: clearCache() forgets the cached configuration; a
\* rejected write is reported and the cache kept
SaveStored ==
    /\ saveCall.pc = "stored"
    /\ saveCall' = [saveCall EXCEPT !.pc = "done",
          !.outcome = IF saveCall.rejected THEN "error" ELSE "ok"]
    /\ cachedConfig' = IF saveCall.rejected THEN cachedConfig ELSE NoConfig
    /\ UNCHANGED <<encryptionKey, secureStore, initCall, clock, objs, wallets,
                   generatedKeys, createCall, balanceCall, sendCall, cipher,
                   swapCall, swapObjs, swapTransactions, demoCall,
                   passwordCall, asyncStorage, currentUser, isAuthenticated,
                   authCall, cancelCall, apiKeys, configCall, priceCache,
                   priceCall>>

----------------------------------------------------------------------------
(* PriceService.getCurrentPrices *)

\* 1 minute cache timeout, in milliseconds
cacheTimeout == 60000

\* lines 351-360
getCoinId(cryptoType) ==
    CASE cryptoType = BITCOIN -> "bitcoin"
      [] cryptoType = ETHEREUM -> "ethereum"
      [] cryptoType = SOLANA -> "solana"

\* coinIds.join(','), which differs where the lists of ids differ
CacheKey(cryptoTypes) == [i \in 1..Len(cryptoTypes) |-> getCoinId(cryptoTypes[i])]

\* the prices the service answers with, in usd
PriceValues == {1, 2}

\* data[coinId] is undefined
NoCoinData == 0

\* result of a call: a Map from type to price data, in insertion order
PriceIdle ==
    [pc |-> "idle", cryptoTypes |-> <<>>, source |-> "none", result |-> <<>>]

\* line 368: cached && Date.now() - cached.timestamp < this.cacheTimeout
CachedFresh(cacheKey, now) ==
    /\ MapHas(priceCache, cacheKey)
    /\ now - MapGet(priceCache, cacheKey).timestamp < cacheTimeout

\* lines 363-378: getCurrentPrices(cryptoTypes) is called.  On a fresh cache
\* entry `new Map()` is returned; else the prices are fetched.
GetCurrentPrices(cryptoTypes, now) ==
    /\ priceCall.pc \in {"idle", "done"}
    /\ now >= clock
    /\ clock' = now
    /\ priceCall' =
          IF CachedFresh(CacheKey(cryptoTypes), now)
          THEN [PriceIdle EXCEPT !.pc = "done", !.cryptoTypes = cryptoTypes,
                                 !.source = "cache", !.result = <<>>]
          ELSE [PriceIdle EXCEPT !.pc = "fetch", !.cryptoTypes = cryptoTypes]
    /\ UNCHANGED <<encryptionKey, secureStore, initCall, objs, wallets,
                   generatedKeys, createCall, balanceCall, sendCall, cipher,
                   swapCall, swapObjs, swapTransactions, demoCall,
                   passwordCall, asyncStorage, currentUser, isAuthenticated,
                   authCall, cancelCall, apiKeys, cachedConfig, configCall,
                   saveCall, priceCache>>

\* lines 389-403: the entries of the types whose coin the answer has
RECURSIVE PriceEntries(_, _)
PriceEntries(cryptoTypes, data) ==
    IF cryptoTypes = <<>> THEN <<>>
    ELSE LET type == cryptoTypes[Len(cryptoTypes)]
             rest == PriceEntries(SubSeq(cryptoTypes, 1, Len(cryptoTypes) - 1), data)
         IN  IF data[getCoinId(type)] # NoCoinData
             THEN Append(rest, [type |-> type, id |-> getCoinId(type),
                                current_price |-> data[getCoinId(type)]])
             ELSE rest

\* lines 380-408: the service has answered.  The entries are built, the
\* answer is cached under the key with the time, and the entries returned.
PricesFetched(now, data) ==
    /\ priceCall.pc = "fetch"
    /\ now >= clock
    /\ clock' = now
    /\ priceCache' = MapSet(priceCache, CacheKey(priceCall.cryptoTypes),
                            [data |-> data, timestamp |-> now])
    /\ priceCall' = [priceCall EXCEPT !.pc = "done", !.source = "fetch",
          !.result = PriceEntries(priceCall.cryptoTypes, data)]
    /\ UNCHANGED <<encryptionKey, secureStore, initCall, objs, wallets,
                   generatedKeys, createCall, balanceCall, sendCall, cipher,
                   swapCall, swapObjs, swapTransactions, demoCall,
                   passwordCall, asyncStorage, currentUser, isAuthenticated,
                   authCall, cancelCall, apiKeys, cachedConfig, configCall,
                   saveCall>>

\* lines 409-413 and 491-533: the fetch fails, or the answer is not ok: mock
\* prices are returned for the types and nothing is cached
PricesFetchFailed(mock) ==
    /\ priceCall.pc = "fetch"
    /\ priceCall' = [priceCall EXCEPT !.pc = "done", !.source = "mock",
          !.result = [i \in 1..Len(priceCall.cryptoTypes) |->
                        [type |-> priceCall.cryptoTypes[i],
                         id |-> getCoinId(priceCall.cryptoTypes[i]),
                         current_price |-> mock[i]]]]
    /\ UNCHANGED <<encryptionKey, secureStore, initCall, clock, objs, wallets,
                   generatedKeys, createCall, balanceCall, sendCall, cipher,
                   swapCall, swapObjs, swapTransactions, demoCall,
                   passwordCall, asyncStorage, currentUser, isAuthenticated,
                   authCall, cancelCall, apiKeys, cachedConfig, configCall,
                   saveCall, priceCache>>

\* no cancelSwap, getConfig, handleSave or getCurrentPrices call was made
ServicesFresh ==
    /\ cancelCall = CancelIdle
    /\ apiKeys = NoApiKeys
    /\ cachedConfig = NoConfig
    /\ configCall = [c \in ConfigCallers |-> ConfigIdle]
    /\ saveCall = SaveIdle
    /\ priceCache = <<>>
    /\ priceCall = PriceIdle

\* no executeSwap, initializeDemoWallets or hashPassword call was made
NoSwapNoDemo ==
    /\ swapCall = [x \in Swappers |-> SwapIdle]
    /\ swapObjs = <<>>
    /\ swapTransactions = <<>>
    /\ demoCall = [d \in DemoCallers |-> DemoIdle]
    /\ passwordCall = PasswordIdle
    /\ AuthFresh
    /\ ServicesFresh

----------------------------------------------------------------------------
(* Specifications *)

\* Spec: the services from their construction
Init ==
    /\ encryptionKey = NoKey
    /\ secureStore = NoKey
    /\ initCall = [i \in InitCallers |-> InitIdle]
    /\ clock = 0
    /\ objs = <<>>
    /\ wallets = <<>>
    /\ generatedKeys = <<>>
    /\ createCall = [c \in Creators |-> CreateIdle]
    /\ balanceCall = [g \in BalanceCallers |-> BalanceIdle]
    /\ sendCall = [p \in Senders |-> SendIdle]
    /\ cipher = CipherIdle
    /\ NoSwapNoDemo

Next ==
    \/ \E i \in InitCallers : Initialize(i)
    \/ \E i \in InitCallers : InitializeLoaded(i)
    \/ \E i \in InitCallers : InitializeLoadFailed(i)
    \/ \E i \in InitCallers : InitializeGenerated(i)
    \/ \E i \in InitCallers : InitializeGenerateFailed(i)
    \/ \E i \in InitCallers : InitializeStored(i)
    \/ \E i \in InitCallers : InitializeStoreFailed(i)
    \/ \E c \in Creators, u \in Users, t \in RequestedTypes : CreateWallet(c, u, t)
    \/ \E c \in Creators : CreateRandom(c)
    \/ \E c \in Creators : CreateRandomFailed(c)
    \/ \E c \in Creators, now \in Times : CreateFinish(c, now)
    \/ \E id \in WalletIds : deleteWallet(id)
    \/ \E wallet \in 1..MaxWallets, balance \in 0..MaxBalance : updateWallet(wallet, balance)
    \/ \E g \in BalanceCallers, id \in WalletIds : GetBalance(g, id)
    \/ \E g \in BalanceCallers : GetBalanceAnswered(g)
    \/ \E g \in BalanceCallers : GetBalanceQueryFailed(g)

Spec == Init /\ [][Next]_vars

\* SpecCipher: a key is held in memory and one string goes through
\* encryptPrivateKey and then decryptPrivateKey
InitCipher ==
    /\ \E bytes \in RandomBytes :
          /\ encryptionKey = HexString(bytes)
          /\ secureStore = HexString(bytes)
    /\ initCall = [i \in InitCallers |-> [InitIdle EXCEPT !.outcome = "ok"]]
    /\ clock = 0
    /\ objs = <<>>
    /\ wallets = <<>>
    /\ generatedKeys = <<>>
    /\ createCall = [c \in Creators |-> CreateIdle]
    /\ balanceCall = [g \in BalanceCallers |-> BalanceIdle]
    /\ sendCall = [p \in Senders |-> SendIdle]
    /\ \E k \in Strings : cipher = [CipherIdle EXCEPT !.pc = "start", !.privateKey = k]
    /\ NoSwapNoDemo

NextCipher ==
    \/ CipherEncrypt
    \/ CipherDecrypt

SpecCipher == InitCipher /\ [][NextCipher]_vars

\* SpecSend: sendTransaction by one caller, beside getBalance, deleteWallet
\* and the clock.  It starts where the program is once initialize has
\* generated the key and createWallet has made two wallets of different chains
\* for one user.  The key in memory is then the one the wallets were encrypted
\* under; or, when setSecureItem had failed and initialize is called again,
\* null (the empty store was read) and then a newly generated key.
SetupKey == HexString(<<10>>)
OtherKey == HexString(<<243>>)

SetupCall(type) ==
    EncryptingWith([CreateIdle EXCEPT !.userId = "u1", !.type = type], <<243>>, SetupKey)

SetupPairs == {<<ETHEREUM, BITCOIN>>, <<BITCOIN, SOLANA>>, <<SOLANA, ETHEREUM>>}

\* the ids createWallet gave at clock 0, one of them not in the registry
SetupIds == {WalletId(t, 0) : t \in CryptoTypes}

InitWallets(types) ==
    /\ clock = 0
    /\ objs = [i \in 1..2 |-> NewWallet(SetupCall(types[i]), 0)]
    /\ wallets = [i \in 1..2 |-> [key |-> WalletId(types[i], 0), ref |-> i]]
    /\ generatedKeys = [i \in 1..2 |-> SetupCall(types[i]).privateKey]
    /\ createCall = [c \in Creators |->
          [CreateIdle EXCEPT !.pc = "done", !.userId = "u1", !.type = types[2],
                             !.kind = "wallet", !.wallet = 2]]

InitKey ==
    \/ /\ encryptionKey = SetupKey
       /\ secureStore = SetupKey
       /\ initCall = [i \in InitCallers |-> [InitIdle EXCEPT !.outcome = "ok"]]
    \/ /\ encryptionKey = NoKey
       /\ secureStore = NoKey
       /\ initCall = [i \in InitCallers |-> [InitIdle EXCEPT !.pc = "generate"]]
    \/ /\ encryptionKey = OtherKey
       /\ secureStore = OtherKey
       /\ initCall = [i \in InitCallers |-> [InitIdle EXCEPT !.outcome = "ok"]]

InitSend ==
    /\ InitKey
    /\ \E types \in SetupPairs : InitWallets(types)
    /\ balanceCall = [g \in BalanceCallers |-> BalanceIdle]
    /\ sendCall = [p \in Senders |-> SendIdle]
    /\ cipher = CipherIdle
    /\ NoSwapNoDemo

SendSteps(p) ==
    \/ SendDispatch(p)
    \/ EthereumFeeData(p)
    \/ EthereumFeeDataFailed(p)
    \/ EthereumSent(p)
    \/ EthereumSendFailed(p)
    \/ EthereumMined(p)
    \/ EthereumWaitFailed(p)
    \/ \E now \in Times : BitcoinTimer(p, now)
    \/ \E now \in Times : SolanaTimer(p, now)
    \/ \E now \in Times : SendSettled(p, now)

NextSend ==
    \/ \E id \in SetupIds, to \in ToAddresses, amount \in Amounts, fee \in Fees :
          SendTransaction("s1", id, to, amount, fee)
    \/ SendSteps("s1")
    \/ \E id \in SetupIds : deleteWallet(id)
    \/ \E g \in BalanceCallers, id \in SetupIds : GetBalance(g, id)
    \/ \E g \in BalanceCallers : GetBalanceAnswered(g)
    \/ \E g \in BalanceCallers : GetBalanceQueryFailed(g)

SpecSend == InitSend /\ [][NextSend]_vars

\* SpecRace: sendTransaction by two callers on one wallet, nothing else
\* running.  It starts where the program is once initialize has stored the key,
\* createWallet has made the wallet and its balance has been fetched.
InitRace ==
    /\ encryptionKey = SetupKey
    /\ secureStore = SetupKey
    /\ initCall = [i \in InitCallers |-> [InitIdle EXCEPT !.outcome = "ok"]]
    /\ clock = 0
    /\ \E type \in CryptoTypes, balance \in 0..MaxBalance :
          /\ objs = <<[NewWallet(SetupCall(type), 0) EXCEPT !.balance = balance]>>
          /\ wallets = <<[key |-> WalletId(type, 0), ref |-> 1]>>
          /\ generatedKeys = <<SetupCall(type).privateKey>>
          /\ createCall = [c \in Creators |->
                [CreateIdle EXCEPT !.pc = "done", !.userId = "u1", !.type = type,
                                   !.kind = "wallet", !.wallet = 1]]
          /\ balanceCall = [g \in BalanceCallers |->
                [BalanceIdle EXCEPT !.pc = "done", !.walletId = WalletId(type, 0),
                                    !.kind = "value", !.value = balance]]
    /\ sendCall = [p \in Senders |-> SendIdle]
    /\ cipher = CipherIdle
    /\ NoSwapNoDemo

NextRace ==
    \/ \E p \in Senders, to \in ToAddresses, amount \in 1..MaxAmount :
          SendTransaction(p, wallets[1].key, to, amount, NoFee)
    \/ \E p \in Senders : SendSteps(p)

SpecRace == InitRace /\ [][NextRace]_vars

\* SpecInit: initialize called again and again by one caller, each call after
\* the one before has ended, with a store that answers every request; between
\* the calls createWallet uses the key.
NextInit ==
    \/ Initialize("i1")
    \/ InitializeLoaded("i1")
    \/ InitializeGenerated("i1")
    \/ InitializeGenerateFailed("i1")
    \/ InitializeStored("i1")
    \/ \E c \in Creators, u \in Users, t \in RequestedTypes : CreateWallet(c, u, t)
    \/ \E c \in Creators : CreateRandom(c)
    \/ \E c \in Creators : CreateRandomFailed(c)
    \/ \E c \in Creators, now \in Times : CreateFinish(c, now)

SpecInit == Init /\ [][NextInit]_vars

\* SpecKey: initialize called by two callers whose calls may overlap, with a
\* store that may fail, beside one string going through encryptPrivateKey and
\* decryptPrivateKey.
KeyCallers == {"i1", "i2"}

InitKeyCalls ==
    /\ encryptionKey = NoKey
    /\ secureStore = NoKey
    /\ initCall = [i \in KeyCallers |-> InitIdle]
    /\ clock = 0
    /\ objs = <<>>
    /\ wallets = <<>>
    /\ generatedKeys = <<>>
    /\ createCall = [c \in Creators |-> CreateIdle]
    /\ balanceCall = [g \in BalanceCallers |-> BalanceIdle]
    /\ sendCall = [p \in Senders |-> SendIdle]
    /\ \E k \in Strings : cipher = [CipherIdle EXCEPT !.pc = "start", !.privateKey = k]
    /\ NoSwapNoDemo

NextKey ==
    \/ \E i \in KeyCallers : Initialize(i)
    \/ \E i \in KeyCallers : InitializeLoaded(i)
    \/ \E i \in KeyCallers : InitializeLoadFailed(i)
    \/ \E i \in KeyCallers : InitializeGenerated(i)
    \/ \E i \in KeyCallers : InitializeGenerateFailed(i)
    \/ \E i \in KeyCallers : InitializeStored(i)
    \/ \E i \in KeyCallers : InitializeStoreFailed(i)
    \/ CipherEncrypt
    \/ CipherDecrypt

SpecKey == InitKeyCalls /\ [][NextKey]_vars

\* SpecCalls: one call of encryptPrivateKey on a string, or of
\* decryptPrivateKey on a text, before initialize was ever called or after it
\* has stored the key.
InitCalls ==
    /\ \/ /\ encryptionKey = NoKey
          /\ secureStore = NoKey
          /\ initCall = [i \in InitCallers |-> InitIdle]
       \/ \E key \in EncryptionKeys :
             /\ encryptionKey = key
             /\ secureStore = key
             /\ initCall = [i \in InitCallers |-> [InitIdle EXCEPT !.outcome = "ok"]]
    /\ clock = 0
    /\ objs = <<>>
    /\ wallets = <<>>
    /\ generatedKeys = <<>>
    /\ createCall = [c \in Creators |-> CreateIdle]
    /\ balanceCall = [g \in BalanceCallers |-> BalanceIdle]
    /\ sendCall = [p \in Senders |-> SendIdle]
    /\ \/ \E k \in Strings :
             cipher = [CipherIdle EXCEPT !.pc = "start", !.privateKey = k]
       \/ \E c \in Ciphertexts :
             cipher = [CipherIdle EXCEPT !.pc = "given", !.encrypted = Success(c)]
    /\ NoSwapNoDemo

NextCalls ==
    \/ CipherEncrypt
    \/ CipherDecrypt
    \/ CipherDecryptGiven

SpecCalls == InitCalls /\ [][NextCalls]_vars

\* SpecOps: the operations that work on wallets of the registry.  It starts
\* where the program is once initialize has stored the key and createWallet
\* has made an Ethereum and a Bitcoin wallet for user u1 and their balances
\* were fetched; user u2 has none.  Date.now() has moved on since.
OpsIds == {WalletId(ETHEREUM, 0), WalletId(BITCOIN, 0), WalletId(SOLANA, 1)}

OpsUsers == {"u1", "u2"}

InitOps ==
    /\ encryptionKey = SetupKey
    /\ secureStore = SetupKey
    /\ initCall = [i \in InitCallers |-> [InitIdle EXCEPT !.outcome = "ok"]]
    /\ clock = 0
    /\ objs = [i \in 1..2 |->
                 [NewWallet(SetupCall(<<ETHEREUM, BITCOIN>>[i]), 0)
                    EXCEPT !.balance = MaxBalance]]
    /\ wallets = <<[key |-> WalletId(ETHEREUM, 0), ref |-> 1],
                   [key |-> WalletId(BITCOIN, 0), ref |-> 2]>>
    /\ generatedKeys = [i \in 1..2 |-> SetupCall(<<ETHEREUM, BITCOIN>>[i]).privateKey]
    /\ createCall = [c \in DemoCallers |-> CreateIdle]
    /\ balanceCall = [g \in BalanceCallers \cup Swappers |-> BalanceIdle]
    /\ sendCall = [p \in Senders |-> SendIdle]
    /\ cipher = CipherIdle
    /\ NoSwapNoDemo

Later == {MaxClock}

NextOps ==
    \/ \E d \in DemoCallers, u \in OpsUsers : InitializeDemoWallets(d, u)
    \/ \E d \in DemoCallers : DemoNextWallet(d)
    \/ \E d \in DemoCallers : DemoBalancesSet(d)
    \/ \E d \in DemoCallers : CreateRandom(d)
    \/ \E d \in DemoCallers : CreateRandomFailed(d)
    \/ \E d \in DemoCallers, now \in Later : CreateFinish(d, now)
    \/ \E x \in Swappers, from \in OpsIds, to \in OpsIds, amount \in 1..MaxAmount :
          ExecuteSwap(x, from, to, amount, amount)
    \/ \E x \in Swappers, now \in Later : SwapBalanceReturned(x, now)
    \/ \E x \in Swappers, now \in Later, isSuccess \in BOOLEAN : SwapTimer(x, now, isSuccess)
    \/ \E g \in BalanceCallers : GetBalance(g, WalletId(BITCOIN, 0))
    \/ \E g \in BalanceCallers \cup Swappers : GetBalanceAnswered(g)
    \/ \E g \in BalanceCallers \cup Swappers : GetBalanceQueryFailed(g)
    \/ \E id \in OpsIds, amount \in 1..MaxAmount :
          SendTransaction("s1", id, AddressOf(ETHEREUM), amount, NoFee)
    \/ SendDispatch("s1")
    \/ EthereumFeeData("s1")
    \/ EthereumFeeDataFailed("s1")
    \/ EthereumSent("s1")
    \/ EthereumSendFailed("s1")
    \/ EthereumMined("s1")
    \/ EthereumWaitFailed("s1")
    \/ \E now \in Later : BitcoinTimer("s1", now)
    \/ \E now \in Later : SolanaTimer("s1", now)
    \/ \E now \in Later : SendSettled("s1", now)
    \/ \E wallet \in 1..MaxWallets, balance \in 0..MaxBalance : updateWallet(wallet, balance)

SpecOps == InitOps /\ [][NextOps]_vars

\* SpecPassword: hashPassword on a password, then verifyPassword of a
\* candidate against the hash returned
NextPassword ==
    \/ \E password \in Strings : HashPassword(password)
    \/ HashDigested
    \/ HashDigestFailed
    \/ \E candidate \in Strings : VerifyPassword(candidate)
    \/ VerifyDigested
    \/ VerifyDigestFailed

SpecPassword == Init /\ [][NextPassword]_vars

\* SpecDemo: initializeDemoWallets by two callers whose calls may overlap, as
\* loadWallets of the dashboard's effect and of its refresh do.  It starts
\* where the program is once initialize has stored the key; no wallet exists.
OverlappingDemoCallers == {"d1", "d2"}

InitDemo ==
    /\ encryptionKey = SetupKey
    /\ secureStore = SetupKey
    /\ initCall = [i \in InitCallers |-> [InitIdle EXCEPT !.outcome = "ok"]]
    /\ clock = 0
    /\ objs = <<>>
    /\ wallets = <<>>
    /\ generatedKeys = <<>>
    /\ createCall = [d \in OverlappingDemoCallers |-> CreateIdle]
    /\ balanceCall = [g \in BalanceCallers |-> BalanceIdle]
    /\ sendCall = [p \in Senders |-> SendIdle]
    /\ cipher = CipherIdle
    /\ swapCall = [x \in Swappers |-> SwapIdle]
    /\ swapObjs = <<>>
    /\ swapTransactions = <<>>
    /\ demoCall = [d \in OverlappingDemoCallers |-> DemoIdle]
    /\ passwordCall = PasswordIdle
    /\ AuthFresh
    /\ ServicesFresh

NextDemo ==
    \/ \E d \in OverlappingDemoCallers, u \in Users : InitializeDemoWallets(d, u)
    \/ \E d \in OverlappingDemoCallers : DemoNextWallet(d)
    \/ \E d \in OverlappingDemoCallers : DemoBalancesSet(d)
    \/ \E d \in OverlappingDemoCallers : CreateRandom(d)
    \/ \E d \in OverlappingDemoCallers : CreateRandomFailed(d)
    \/ \E d \in OverlappingDemoCallers, now \in Times : CreateFinish(d, now)

SpecDemo == InitDemo /\ [][NextDemo]_vars

\* SpecAuth: register, login and logout of the AuthService, and starts of the
\* app with their initialize, one call at a time, on a storage that starts
\* empty and whose requests may be rejected.  The clock is read at the start
\* and when the lifetime of a session made at the start has passed.
AuthEmails == {"e1", "e2"}
AuthUsernames == {"n1", "n2"}
AuthPasswords == {<<48>>, <<102>>}
AuthTimes == {0, SessionLifetime}

NextAuth ==
    \/ \E a \in AuthCallers, email \in AuthEmails, username \in AuthUsernames,
          password \in AuthPasswords, rejected \in BOOLEAN :
          Register(a, email, username, password, rejected)
    \/ \E a \in AuthCallers : RegisterUsersRead(a)
    \/ \E a \in AuthCallers, now \in AuthTimes, failed \in BOOLEAN, rejected \in BOOLEAN :
          RegisterHashed(a, now, failed, rejected)
    \/ \E a \in AuthCallers, now \in AuthTimes, rejected \in BOOLEAN :
          RegisterStored(a, now, rejected)
    \/ \E a \in AuthCallers, rejected \in BOOLEAN : SessionStored(a, rejected)
    \/ \E a \in AuthCallers : SessionUserStored(a)
    \/ \E a \in AuthCallers, email \in AuthEmails, password \in AuthPasswords,
          rejected \in BOOLEAN : Login(a, email, password, rejected)
    \/ \E a \in AuthCallers : LoginUsersRead(a)
    \/ \E a \in AuthCallers, now \in AuthTimes, failed \in BOOLEAN, rejected \in BOOLEAN :
          LoginVerified(a, now, failed, rejected)
    \/ \E a \in AuthCallers, rejected \in BOOLEAN : Logout(a, rejected)
    \/ \E a \in AuthCallers, rejected \in BOOLEAN : SessionRemoved(a, rejected)
    \/ \E a \in AuthCallers, rejected \in BOOLEAN : UserRemoved(a, rejected)
    \/ \E a \in AuthCallers, rejected \in BOOLEAN : AuthInitialize(a, rejected)
    \/ \E a \in AuthCallers, now \in AuthTimes, rejected \in BOOLEAN :
          InitSessionRead(a, now, rejected)
    \/ \E a \in AuthCallers, rejected \in BOOLEAN : InitUserRead(a, rejected)

SpecAuth == Init /\ [][NextAuth]_vars

\* SpecSwap: executeSwap by two callers whose calls may overlap, cancelSwap
\* and deleteWallet, on two wallets of one user that hold MaxBalance each
OverlappingSwappers == {"x1", "x2"}

SwapWalletIds == {WalletId(ETHEREUM, 0), WalletId(BITCOIN, 0)}

SwapIds == {<<"swap", now>> : now \in Times}

InitSwap ==
    /\ encryptionKey = SetupKey
    /\ secureStore = SetupKey
    /\ initCall = [i \in InitCallers |-> [InitIdle EXCEPT !.outcome = "ok"]]
    /\ clock = 0
    /\ objs = [i \in 1..2 |->
                 [NewWallet(SetupCall(<<ETHEREUM, BITCOIN>>[i]), 0)
                    EXCEPT !.balance = MaxBalance]]
    /\ wallets = <<[key |-> WalletId(ETHEREUM, 0), ref |-> 1],
                   [key |-> WalletId(BITCOIN, 0), ref |-> 2]>>
    /\ generatedKeys = [i \in 1..2 |-> SetupCall(<<ETHEREUM, BITCOIN>>[i]).privateKey]
    /\ createCall = [c \in Creators |-> CreateIdle]
    /\ balanceCall = [g \in OverlappingSwappers |-> BalanceIdle]
    /\ sendCall = [p \in Senders |-> SendIdle]
    /\ cipher = CipherIdle
    /\ swapCall = [x \in OverlappingSwappers |-> SwapIdle]
    /\ swapObjs = <<>>
    /\ swapTransactions = <<>>
    /\ demoCall = [d \in DemoCallers |-> DemoIdle]
    /\ passwordCall = PasswordIdle
    /\ AuthFresh
    /\ ServicesFresh

NextSwap ==
    \/ \E x \in OverlappingSwappers, from \in OpsIds, to \in OpsIds,
          amount \in 1..MaxAmount : ExecuteSwap(x, from, to, amount, amount + 1)
    \/ \E x \in OverlappingSwappers : GetBalanceAnswered(x)
    \/ \E x \in OverlappingSwappers : GetBalanceQueryFailed(x)
    \/ \E x \in OverlappingSwappers, now \in Times : SwapBalanceReturned(x, now)
    \/ \E x \in OverlappingSwappers, now \in Times, isSuccess \in BOOLEAN :
          SwapTimer(x, now, isSuccess)
    \/ \E swapId \in SwapIds, userId \in OpsUsers : CancelSwap(swapId, userId)
    \/ \E id \in SwapWalletIds : deleteWallet(id)

SpecSwap == InitSwap /\ [][NextSwap]_vars

\* SpecConfig: getConfig by two callers whose calls may overlap, while API
\* keys are saved from the prompt and the settings screen, on a storage
\* whose requests may be rejected
\* what is typed as the key: a blank, and a key between blanks
ApiKeyInputs == {<<32>>, <<32, 107, 32>>}

NextConfig ==
    \/ \E c \in ConfigCallers, rejected \in BOOLEAN : GetConfig(c, rejected)
    \/ \E c \in ConfigCallers, rejected \in BOOLEAN : ConfigItemRead(c, rejected)
    \/ \E keyType \in {"infura", "coingecko"}, apiKey \in ApiKeyInputs,
          rejected \in BOOLEAN : HandleSave(keyType, apiKey, rejected)
    \/ \E apiKey \in ApiKeyInputs, rejected \in BOOLEAN :
          SaveApiKey("custom_eth", apiKey, rejected)
    \/ SaveStored

SpecConfig == Init /\ [][NextConfig]_vars

\* SpecPrices: getCurrentPrices called again and again, each call after the
\* one before has ended, at the start, just before the cache timeout has
\* passed, and when it has
PriceRequests == {<<BITCOIN>>, <<ETHEREUM, BITCOIN>>}

PriceTimes == {0, cacheTimeout - 1, cacheTimeout}

CoinIds == {getCoinId(type) : type \in CryptoTypes}

NextPrices ==
    \/ \E cryptoTypes \in PriceRequests, now \in PriceTimes :
          GetCurrentPrices(cryptoTypes, now)
    \/ \E now \in PriceTimes, data \in [CoinIds -> PriceValues \cup {NoCoinData}] :
          PricesFetched(now, data)
    \/ \E mock \in [1..2 -> PriceValues] : PricesFetchFailed(mock)

SpecPrices == Init /\ [][NextPrices]_vars

----------------------------------------------------------------------------
(* Properties *)

\* a step of the sendTransaction call of p
SendStepOf(p) == sendCall'[p] # sendCall[p]

\* the prefix each chain's adapter gives its hashes
HashTag(type) ==
    IF type = ETHEREUM THEN "0x" ELSE IF type = BITCOIN THEN "btc_tx" ELSE "sol_tx"

\* C1: a sendTransaction call on a wallet of the registry with an amount above
\* the wallet's stored balance returns no Transaction, calls no adapter, and
\* none of its steps changes a stored balance.
C1_InsufficientFundsRejected ==
    [][\A p \in Senders :
          LET call == sendCall'[p]
          IN  (/\ SendStepOf(p)
               /\ call.wallet # NoWallet
               /\ call.amount > call.balanceBefore)
              => /\ call.kind # "transaction"
                 /\ call.adapter = "none"
                 /\ ~call.submitted
                 /\ objs' = objs]_vars

\* C2: of two sendTransaction calls on one wallet that overlap in time, each
\* with a positive amount within the wallet's balance and the two amounts
\* together above it, at most one returns a Transaction.
C2_AtMostOneOverlappingSendSucceeds ==
    \A p, q \in Senders :
        LET a == sendCall[p]
            b == sendCall[q]
        IN  (/\ p # q
             /\ a.wallet # NoWallet
             /\ a.wallet = b.wallet
             /\ (p \in b.overlaps \/ q \in a.overlaps)
             /\ a.amount > 0 /\ a.amount <= a.balanceBefore
             /\ b.amount > 0 /\ b.amount <= b.balanceBefore
             /\ a.amount + b.amount > objs[a.wallet].balance)
            => ~(a.kind = "transaction" /\ b.kind = "transaction")

\* C3: when decryptPrivateKey or the chain adapter fails, sendTransaction ends
\* with the one error 'Failed to send transaction' and no Transaction; and no
\* step of a sendTransaction call changes a Wallet object or the registry.
C3_FailedSendWrapsAndKeepsWallets ==
    [][\A p \in Senders :
          SendStepOf(p)
          => /\ objs' = objs
             /\ wallets' = wallets
             /\ (\/ (sendCall[p].pc = "decrypt" /\ ~sendCall[p].decrypted.ok)
                 \/ (sendCall[p].pc = "settled" /\ sendCall[p].adapter = "failed"))
                => /\ sendCall'[p].pc = "done"
                   /\ sendCall'[p].kind = "error"
                   /\ sendCall'[p].message = "Failed to send transaction"
                   /\ sendCall'[p].transaction = NoTransaction]_vars

\* C3 happens: a call whose Ethereum transaction was broadcast and then failed
\* has ended in the wrapping error, on a wallet whose balance is still the
\* positive one it had.
C3_Witness ==
    \E p \in Senders :
        /\ sendCall[p].pc = "done"
        /\ sendCall[p].adapter = "failed"
        /\ sendCall[p].submitted
        /\ sendCall[p].message = "Failed to send transaction"
        /\ sendCall[p].balanceBefore > 0
        /\ objs[sendCall[p].wallet].balance = sendCall[p].balanceBefore

\* C4: a sendTransaction call whose toAddress is not in the format of the
\* wallet's chain submits nothing and returns no Transaction.
C4_MalformedAddressRejected ==
    \A p \in Senders :
        LET call == sendCall[p]
        IN  (/\ call.wallet # NoWallet
             /\ call.toAddress # AddressOf(objs[call.wallet].type))
            => /\ ~call.submitted
               /\ call.kind # "transaction"

\* C5: the step in which sendTransaction returns its Transaction, for a positive
\* amount within the balance the wallet had at the call, leaves the wallet's
\* stored balance at that balance minus the amount.
C5_BalanceDecremented ==
    [][\A p \in Senders :
          LET call == sendCall'[p]
          IN  (/\ SendStepOf(p)
               /\ call.kind = "transaction"
               /\ call.amount > 0
               /\ call.amount <= call.balanceBefore)
              => objs'[call.wallet].balance = call.balanceBefore - call.amount]_vars

\* C6: a Transaction that sendTransaction returns has status pending, type
\* send, the walletId, toAddress and amount of the call, the address of the
\* wallet as fromAddress, and as hash the one the adapter of the wallet's chain
\* returned.
C6_TransactionFields ==
    \A p \in Senders :
        LET call == sendCall[p]
            tx == call.transaction
        IN  call.kind = "transaction"
            => /\ tx.status = "pending"
               /\ tx.type = "send"
               /\ tx.walletId = call.walletId
               /\ tx.fromAddress = objs[call.wallet].address
               /\ tx.toAddress = call.toAddress
               /\ tx.amount = call.amount
               /\ call.adapter = "returned"
               /\ tx.hash = call.txHash
               /\ tx.hash.tag = HashTag(objs[call.wallet].type)

\* C6 happens: a Transaction was returned for an Ethereum wallet.
C6_Witness ==
    \E p \in Senders :
        /\ sendCall[p].kind = "transaction"
        /\ objs[sendCall[p].wallet].type = ETHEREUM
        /\ sendCall[p].transaction.hash.nonce \in Nonces

\* C7: sendTransaction called with a walletId the registry does not hold ends
\* at once with 'Wallet not found': no key is decrypted, no adapter is called,
\* and the registry and the Wallet objects are as they were.
C7_UnknownWalletNotFound ==
    [][\A p \in Senders :
          (/\ sendCall[p].pc = "idle"
           /\ SendStepOf(p)
           /\ ~MapHas(wallets, sendCall'[p].walletId))
          => /\ sendCall'[p].pc = "done"
             /\ sendCall'[p].kind = "error"
             /\ sendCall'[p].message = "Wallet not found"
             /\ sendCall'[p].transaction = NoTransaction
             /\ sendCall'[p].decrypted = SendIdle.decrypted
             /\ sendCall'[p].adapter = "none"
             /\ ~sendCall'[p].submitted
             /\ wallets' = wallets
             /\ objs' = objs]_vars

\* C7 happens: a call has ended in 'Wallet not found' for the id of a wallet
\* that deleteWallet had taken out of the registry.
C7_Witness ==
    \E p \in Senders :
        /\ sendCall[p].pc = "done"
        /\ sendCall[p].message = "Wallet not found"
        /\ ~MapHas(wallets, sendCall[p].walletId)
        /\ \E r \in 1..Len(objs) : objs[r].id = sendCall[p].walletId

\* C8: a sendTransaction call with an amount of zero or less returns no
\* Transaction.
C8_NonPositiveAmountRejected ==
    \A p \in Senders :
        sendCall[p].amount <= 0 => sendCall[p].kind # "transaction"

\* the strings whose code units are all bytes
IsByteString(k) == \A i \in 1..Len(k) : k[i] <= 255

\* C9: with a key in memory, encryptPrivateKey succeeds on every string of
\* bytes, the empty one and those longer than the key included, and
\* decryptPrivateKey of the result is that string.
C9_RoundTrip ==
    (cipher.pc # "idle" /\ IsByteString(cipher.privateKey))
    => /\ cipher.pc # "start" => cipher.encrypted.ok
       /\ cipher.pc = "decrypted" => cipher.decrypted = Success(cipher.privateKey)

\* C9 happens: a string longer than the key has gone through both functions,
\* so that the key was used twice over.
C9_Witness ==
    /\ cipher.pc = "decrypted"
    /\ Len(cipher.privateKey) > Len(encryptionKey)
    /\ cipher.privateKey[Len(cipher.privateKey)] = 255
    /\ cipher.encrypted.val # cipher.privateKey
    /\ cipher.decrypted.val = cipher.privateKey

InitStepOf(i) == initCall'[i] # initCall[i]

\* C11: in initialize calls that follow one another, with a store that answers:
\* when the store holds a key the call takes it into memory, writes nothing
\* and ends; when it holds none the call goes on to generate a key, holds it
\* in memory and writes that key to the store.  A key is generated only while
\* the store is empty, a stored key is never replaced, and every call that
\* ends well leaves the stored key in memory.
C11_InitializeLoadsOrGeneratesOnce ==
    [][/\ secureStore # NoKey => secureStore' = secureStore
       /\ \A i \in DOMAIN initCall :
             InitStepOf(i)
             => /\ (initCall[i].pc = "get" /\ secureStore # NoKey)
                   => /\ encryptionKey' = secureStore
                      /\ secureStore' = secureStore
                      /\ initCall'[i].pc = "idle"
                      /\ initCall'[i].outcome = "ok"
                /\ (initCall[i].pc = "get" /\ secureStore = NoKey)
                   => /\ initCall'[i].pc = "generate"
                      /\ secureStore' = NoKey
                /\ initCall'[i].pc = "store"
                   => /\ secureStore = NoKey
                      /\ encryptionKey' \in EncryptionKeys
                      /\ initCall'[i].key = encryptionKey'
                /\ initCall[i].pc = "store"
                   => /\ secureStore' = encryptionKey
                      /\ encryptionKey' = encryptionKey
                      /\ initCall'[i].outcome = "ok"
                /\ initCall'[i].outcome = "ok"
                   => /\ encryptionKey' # NoKey
                      /\ encryptionKey' = secureStore']_vars

\* C11 happens: a later initialize call is reading the store, which holds the
\* key under which a wallet was made after an earlier call.
C11_Witness ==
    /\ initCall["i1"].pc = "get"
    /\ secureStore # NoKey
    /\ encryptionKey = secureStore
    /\ Len(objs) > 0
    /\ decryptPrivateKey(secureStore, objs[1].privateKey) = Success(generatedKeys[1])

\* C12: while an initialize call that has ended well is on record, no step
\* changes the key held in memory.
C12_KeyFixedAfterInitialize ==
    [][(\E i \in DOMAIN initCall : initCall[i].outcome = "ok")
       => encryptionKey' = encryptionKey]_vars

\* the code units of a text that are neither white space nor '='
DataUnits(s) == SelectSeq(s, LAMBDA c : c \notin {9, 10, 12, 13, 32, 61})

\* a text that is no base64: it has a code unit that base64 does not use, a
\* '=' before a data character, more than two '=', or a number of data
\* characters that no byte string encodes to
NotBase64(s) ==
    \/ \E i \in 1..Len(s) : ~IsBase64Char(s[i]) /\ s[i] \notin {9, 10, 12, 13, 32, 61}
    \/ \E i, j \in 1..Len(s) : i < j /\ s[i] = 61 /\ IsBase64Char(s[j])
    \/ Cardinality({i \in 1..Len(s) : s[i] = 61}) > 2
    \/ Len(DataUnits(s)) % 4 = 1

\* a call that has thrown: an error and no value
Threw(r, msg) == ~r.ok /\ r.val = <<>> /\ r.err = msg

\* C13: with no key in memory encryptPrivateKey and decryptPrivateKey throw
\* and return nothing; with a key, decryptPrivateKey throws and returns nothing
\* on a text that is no base64.
C13_NoKeyOrMalformedFails ==
    /\ (encryptionKey = NoKey /\ cipher.pc = "encrypted")
       => Threw(cipher.encrypted, "Security manager not initialized")
    /\ (encryptionKey = NoKey /\ cipher.pc = "decrypted")
       => Threw(cipher.decrypted, "Security manager not initialized")
    /\ (encryptionKey # NoKey /\ cipher.pc = "decrypted" /\ NotBase64(cipher.encrypted.val))
       => Threw(cipher.decrypted, "Failed to decrypt private key")

\* C13 happens: with a key in memory decryptPrivateKey was called on a text
\* that has four characters, one of them not of base64.
C13_Witness ==
    /\ encryptionKey # NoKey
    /\ cipher.pc = "decrypted"
    /\ Len(cipher.encrypted.val) = 4
    /\ 35 \in {cipher.encrypted.val[i] : i \in 1..4}
    /\ Threw(cipher.decrypted, "Failed to decrypt private key")

\* a step of a createWallet call
CreateStepOf(c) == createCall'[c] # createCall[c]

\* C14: createWallet called with a chain outside ethereum, bitcoin and solana
\* fails; no step of a createWallet call other than its successful end
\* changes the registry or a wallet in it.
C14_FailedCreateKeepsRegistry ==
    [][\A c \in Creators : CreateStepOf(c) =>
          /\ (createCall[c].pc \in {"idle", "done"} /\ createCall'[c].type \notin CryptoTypes)
             => (createCall'[c].pc = "done" /\ createCall'[c].kind = "error")
          /\ createCall'[c].kind # "wallet" => (wallets' = wallets /\ objs' = objs)]_vars

\* C14 happens: with a wallet in the registry, a createWallet call for a chain
\* that is not supported has failed.
C14_Witness ==
    /\ Len(wallets) >= 1
    /\ \E c \in Creators :
          /\ createCall[c].pc = "done"
          /\ createCall[c].kind = "error"
          /\ createCall[c].type \notin CryptoTypes

\* C15: a createWallet call that succeeds stores its wallet under an id that
\* no wallet of the registry has, and every wallet of the registry stays in
\* it under its id.
C15_NewWalletIdIsFresh ==
    [][\A c \in Creators :
          (CreateStepOf(c) /\ createCall'[c].kind = "wallet") =>
             /\ ~MapHas(wallets, objs'[createCall'[c].wallet].id)
             /\ \A i \in 1..Len(wallets) :
                   /\ MapHas(wallets', wallets[i].key)
                   /\ MapGet(wallets', wallets[i].key) = wallets[i].ref]_vars

\* C16: address, type, userId and decimals of a wallet object are the values
\* createWallet gave it and no step of getBalance, sendTransaction,
\* updateWallet, initializeDemoWallets or executeSwap changes them; decimals
\* is 18 for ethereum, 8 for bitcoin and 9 for solana.
C16_IdentityFieldsFixed ==
    [][/\ Len(objs') >= Len(objs)
       /\ \A r \in 1..Len(objs) :
             /\ objs'[r].address = objs[r].address
             /\ objs'[r].type = objs[r].type
             /\ objs'[r].userId = objs[r].userId
             /\ objs'[r].decimals = objs[r].decimals
       /\ \A r \in (Len(objs) + 1)..Len(objs') :
             \E c \in DOMAIN createCall :
                /\ objs'[r].address = createCall[c].address
                /\ objs'[r].type = createCall[c].type
                /\ objs'[r].userId = createCall[c].userId
       /\ \A r \in 1..Len(objs') :
             objs'[r].decimals = IF objs'[r].type = ETHEREUM THEN 18
                                 ELSE IF objs'[r].type = BITCOIN THEN 8
                                 ELSE 9]_vars

\* C16 happens: initializeDemoWallets has made three wallets and set their
\* balances, and an executeSwap between two different wallets has completed
\* and moved their balances.
C16_Witness ==
    /\ \E d \in DOMAIN demoCall : demoCall[d].kind = "done"
    /\ \E x \in DOMAIN swapCall :
          /\ swapCall[x].kind = "swap"
          /\ swapCall[x].fromWalletId # swapCall[x].toWalletId
          /\ swapObjs[swapCall[x].swap].status = COMPLETED
    /\ \E r \in 1..Len(objs) : objs[r].balance > MaxBalance

\* C17: getWalletsByUserId lists the registry's wallets of the user, each
\* once, in the order in which createWallet made them (a wallet made earlier
\* has the smaller reference); getWallet gives the reference stored under
\* the id, or none.
C17_ListedInCreationOrder ==
    /\ \A u \in Users :
          LET listed == getWalletsByUserId(u)
          IN  /\ {listed[i] : i \in 1..Len(listed)} =
                    {wallets[i].ref : i \in {j \in 1..Len(wallets) : objs[wallets[j].ref].userId = u}}
              /\ \A i, j \in 1..Len(listed) : i < j => listed[i] < listed[j]
    /\ \A id \in WalletIds :
          IF \E i \in 1..Len(wallets) : wallets[i].key = id
          THEN \E i \in 1..Len(wallets) : wallets[i].key = id /\ wallets[i].ref = getWallet(id)
          ELSE getWallet(id) = NoWallet

\* the chain's answer, or the query's failure, ends the getBalance call
BalanceStepOf(g) == balanceCall[g].pc = "query" /\ balanceCall'[g].pc = "done"

\* C18: a getBalance call whose chain query fails returns the balance the
\* wallet object has, without an error, and leaves that balance as it is; a
\* call whose query succeeds stores the amount and returns it.
C18_FailedQueryKeepsBalance ==
    [][\A g \in DOMAIN balanceCall : BalanceStepOf(g) =>
          LET wallet == balanceCall[g].wallet
          IN  /\ balanceCall'[g].kind = "value"
              /\ objs'[wallet].balance = balanceCall'[g].value
              /\ balanceCall'[g].queryFailed =>
                    /\ balanceCall'[g].value = objs[wallet].balance
                    /\ objs'[wallet].balance = objs[wallet].balance]_vars

\* the stage of a call's transfer on its chain, as the adapter's awaits show
\* it: wallet.sendTransaction builds, signs and broadcasts the transaction,
\* and tx.wait() observes its confirmation or its failure; the simulated
\* Bitcoin and Solana transfers build, sign and broadcast nothing
TransferStage(call) ==
    IF call.txHash.tag # "0x" THEN "none"
    ELSE IF call.pc = "eth_wait" THEN "submitted"
    ELSE IF call.adapter = "returned" THEN "confirmed"
    ELSE "failed"

\* C19: a transfer is submitted before it is confirmed or failed and leaves
\* neither of these; a Transaction returned with status pending is of a
\* transfer that was submitted and not yet seen confirmed.
C19_PendingIsSubmittedUnconfirmed ==
    [][\A p \in DOMAIN sendCall : SendStepOf(p) =>
          LET before == TransferStage(sendCall[p])
              after == TransferStage(sendCall'[p])
          IN  /\ before # after =>
                    <<before, after>> \in {<<"none", "submitted">>,
                                           <<"submitted", "confirmed">>,
                                           <<"submitted", "failed">>}
              /\ (sendCall'[p].kind = "transaction"
                  /\ sendCall'[p].transaction.status = "pending")
                 => after = "submitted"]_vars

\* C20: verifyPassword, called on the hash hashPassword returned for a
\* password, returns true for that password and false for a candidate whose
\* hash differs; it throws nothing, and returns false when the hashing of the
\* candidate fails.
C20_VerifyMatchesHash ==
    (passwordCall.pc = "done" /\ passwordCall.hash.ok) =>
       /\ passwordCall.verified.ok
       /\ (passwordCall.passwordHash.ok /\ passwordCall.candidate = passwordCall.password)
          => passwordCall.verified.val = TRUE
       /\ (passwordCall.passwordHash.ok
           /\ digestString(passwordCall.candidate) # digestString(passwordCall.password))
          => passwordCall.verified.val = FALSE
       /\ ~passwordCall.passwordHash.ok => passwordCall.verified.val = FALSE

\* C20 happens: a candidate that is not the password, and has another hash,
\* was verified against the password's hash and refused.
C20_Witness ==
    /\ passwordCall.pc = "done"
    /\ passwordCall.hash.ok
    /\ passwordCall.candidate # passwordCall.password
    /\ digestString(passwordCall.candidate) # passwordCall.hash.val
    /\ passwordCall.verified = Success(FALSE)

\* a step of an initializeDemoWallets call
DemoStepOf(d) == demoCall'[d] # demoCall[d]

\* the registry's wallets of the user on the chain
OwnedOn(m, heap, u, type) ==
    {i \in 1..Len(m) : heap[m[i].ref].userId = u /\ heap[m[i].ref].type = type}

\* C21: whatever initializeDemoWallets calls were made, overlapping or not,
\* a user has at most one wallet per chain in the registry; a call made when
\* the user has a wallet creates nothing and changes no balance; no call ends
\* with an error.
C21_OneDemoWalletPerChain ==
    [][/\ \A u \in Users, type \in CryptoTypes :
             Cardinality(OwnedOn(wallets', objs', u, type)) <= 1
       /\ \A d \in DOMAIN demoCall : DemoStepOf(d) =>
             /\ demoCall'[d].kind \in {"none", "returned", "caught", "done"}
             /\ (demoCall[d].pc = "idle" /\ Len(getWalletsByUserId(demoCall'[d].userId)) > 0)
                => /\ demoCall'[d].kind = "returned"
                   /\ UNCHANGED <<objs, wallets, createCall>>]_vars

\* a step of a call of the AuthService
AuthStepOf(a) == authCall'[a] # authCall[a]

\* a user of the stored list has the email or the username
StoredWith(users, email, username) ==
    \E i \in 1..Len(users) : users[i].email = email \/ users[i].username = username

\* C22: a register call whose email or username a stored user has ends with
\* an error and leaves the stored users, the stored session and the current
\* user as they were; and no two stored users ever share an email or a
\* username.
C22_DuplicateRegisterFails ==
    [][/\ \A i, j \in 1..Len(asyncStorage'.users) :
             i # j => /\ asyncStorage'.users[i].email # asyncStorage'.users[j].email
                      /\ asyncStorage'.users[i].username # asyncStorage'.users[j].username
       /\ \A a \in AuthCallers :
             (/\ AuthStepOf(a)
              /\ authCall[a].pc = "reg_users"
              /\ StoredWith(asyncStorage.users, authCall[a].email, authCall[a].username))
             => /\ authCall'[a].pc = "done"
                /\ authCall'[a].outcome = "error"
                /\ UNCHANGED <<asyncStorage, currentUser, isAuthenticated>>]_vars

\* the call ends with this step, returning
AuthCompletes(a) ==
    /\ authCall[a].pc # "done"
    /\ authCall'[a].pc = "done"
    /\ authCall'[a].outcome = "ok"

AuthFails(a) ==
    /\ authCall[a].pc # "done"
    /\ authCall'[a].pc = "done"
    /\ authCall'[a].outcome = "error"

\* C24: a login that returns was made with the email of a stored user whose
\* stored hash is the hash of the password given, and makes that user the
\* current user; a login that throws has changed neither the current user,
\* isAuthenticated nor the stored session; and isAuthenticated is true
\* exactly when there is a current user.
C24_LoginNeedsStoredCredentials ==
    [][/\ isAuthenticated' <=> currentUser' # NoUser
       /\ \A a \in AuthCallers :
             /\ (authCall[a].op = "login" /\ AuthCompletes(a))
                => /\ \E i \in 1..Len(asyncStorage.users) :
                         /\ asyncStorage.users[i].email = authCall[a].email
                         /\ asyncStorage.users[i].password = digestString(authCall[a].password)
                         /\ currentUser' = PublicUser(asyncStorage.users[i])
                   /\ isAuthenticated'
             /\ (authCall[a].op = "login" /\ AuthFails(a))
                => /\ UNCHANGED <<currentUser, isAuthenticated>>
                   /\ asyncStorage'.session = authCall[a].session]_vars

\* the timer of the executeSwap call fires in this step
SwapTimerStepOf(x) == swapCall[x].pc = "timer" /\ swapCall'[x].pc = "done"

\* C25: a swap that is completed or failed keeps its status, whatever
\* cancelSwap and executeSwap steps interleave; a swap that cancelSwap
\* returned true for stays failed and its execution moves no balance;
\* cancelSwap returns false and changes nothing for a swap that is unknown,
\* of another user or not pending.
C25_SwapStatusIsTerminal ==
    [][/\ \A s \in 1..Len(swapObjs) :
             swapObjs[s].status \in {COMPLETED, FAILED}
             => swapObjs'[s].status = swapObjs[s].status
       /\ (cancelCall.pc = "done" /\ cancelCall.result)
          => /\ swapObjs'[cancelCall.swap].status = FAILED
             /\ \A x \in DOMAIN swapCall :
                   (SwapTimerStepOf(x) /\ swapCall[x].swap = cancelCall.swap)
                   => UNCHANGED objs
       /\ cancelCall' # cancelCall
          => LET swap == getSwap(cancelCall'.swapId)
             IN  IF \/ swap = NoSwap
                    \/ swapObjs[swap].userId # cancelCall'.userId
                    \/ swapObjs[swap].status # PENDING
                 THEN /\ ~cancelCall'.result
                      /\ UNCHANGED <<swapObjs, swapTransactions, objs, wallets>>
                 ELSE /\ cancelCall'.result
                      /\ swapObjs'[swap].status = FAILED]_vars

\* C26: no wallet's balance is negative, whatever executeSwap calls were
\* made, overlapping or not.
C26_NoNegativeBalance == \A i \in 1..Len(objs) : objs[i].balance >= 0

\* C27: when the execution of a swap ends with the swap completed, the source
\* wallet's balance has gone down by fromAmount and the target's up by
\* toAmount in that step, also when a wallet was deleted meanwhile, and no
\* other balance has changed; when it ends with the swap failed no balance
\* has changed; an executeSwap call that is rejected changes no balance and
\* records no swap.
C27_FundsFollowStatus ==
    [][\A x \in DOMAIN swapCall :
          LET call == swapCall[x]
              fromWallet == getWallet(call.fromWalletId)
              toWallet == getWallet(call.toWalletId)
              moved(i) == (IF i = fromWallet THEN 0 - call.fromAmount ELSE 0)
                          + (IF i = toWallet THEN call.toAmount ELSE 0)
          IN  /\ (SwapTimerStepOf(x) /\ swapObjs'[call.swap].status = COMPLETED)
                 => /\ fromWallet # NoWallet
                    /\ toWallet # NoWallet
                    /\ \A i \in 1..Len(objs) :
                          objs'[i].balance = objs[i].balance + moved(i)
              /\ (SwapTimerStepOf(x) /\ swapObjs'[call.swap].status = FAILED)
                 => UNCHANGED objs
              /\ (call.pc # "done" /\ swapCall'[x].pc = "done" /\ swapCall'[x].kind = "error")
                 => UNCHANGED <<objs, swapObjs, swapTransactions>>]_vars

\* C28: whenever no initialize call is in progress and a key is held in
\* memory, that key is the key the store holds, whatever overlapping
\* initialize calls were made on the empty store.  It is stated of the runs
\* in which no call has ended with an error.
C28_MemoryKeyIsStoredKey ==
    (/\ \A i \in DOMAIN initCall :
          initCall[i].pc = "idle" /\ initCall[i].outcome # "error"
     /\ encryptionKey # NoKey)
    => encryptionKey = secureStore

\* C29: a getConfig call that starts when no save is between its write and
\* its clearCache returns the configuration built from the keys stored then
\* when it returns at once, also when another getConfig call was in progress
\* during the last save; a getConfig call whose read of the storage is
\* rejected returns the defaults and caches nothing.
C29_ConfigFollowsStoredKeys ==
    [][\A c \in ConfigCallers :
          /\ (/\ configCall[c].pc \in {"idle", "done"}
              /\ configCall'[c].pc = "done"
              /\ configCall'[c] # configCall[c]
              /\ saveCall.pc # "stored")
             => configCall'[c].result = BuildConfig(apiKeys)
          /\ (configCall[c].pc = "read" /\ configCall[c].rejected
              /\ configCall'[c] # configCall[c])
             => /\ configCall'[c].pc = "done"
                /\ configCall'[c].result = DefaultConfig
                /\ UNCHANGED cachedConfig]_vars

\* C30: a getCurrentPrices call made less than the cache timeout after a
\* fetch for the same types was cached returns, without fetching, the entries
\* of that fetch, one for every type it had a price for; a call made when the
\* timeout has passed, or with nothing cached for the types, fetches.
C30_CachedPricesReturned ==
    [][(priceCall.pc \in {"idle", "done"} /\ priceCall' # priceCall)
       => LET cryptoTypes == priceCall'.cryptoTypes
              cacheKey == CacheKey(cryptoTypes)
          IN  IF /\ MapHas(priceCache, cacheKey)
                 /\ clock' - MapGet(priceCache, cacheKey).timestamp < cacheTimeout
              THEN /\ priceCall'.pc = "done"
                   /\ priceCall'.result =
                         PriceEntries(cryptoTypes, MapGet(priceCache, cacheKey).data)
              ELSE priceCall'.pc = "fetch"]_vars

====
